---- MODULE Spec2Model ----
(***************************************************************************)
(* Model of the desktop sync engine: SyncEngine.performSync (both builds   *)
(* of sync-engine.ts: the S3 flow and the legacy direct-upload flow),      *)
(* S3UploadService.uploadBatch / pollSyncStatus, the tracking store, the   *)
(* scheduler tick and the start-sync IPC handler; on their own,            *)
(* SyncEngine.checkAndResumeIncompleteSync, FileScanner.scanDirectory and  *)
(* the file and folder methods of DatabaseManager over its stored lists,   *)
(* the folder IPC handlers served during a run, and SyncScheduler.         *)
(*                                                                         *)
(* One action is one synchronous stretch of JavaScript: from the return    *)
(* of an awaited call up to the next await.                                *)
(***************************************************************************)
EXTENDS Integers, Sequences, FiniteSets, TLC

(***************************************************************************)
(* Universe                                                                *)
(***************************************************************************)
Paths == {"a.txt", "b.txt", "c.txt"}

\* the order in which a scan enumerates the paths (Map insertion order)
PathOrder == <<"a.txt", "b.txt", "c.txt">>

\* content hashes; 0 stands for "no file" / "no hash"
Hashes == {1, 2}

\* the contents the environment writes to each path: a.txt is edited between
\* two contents, b.txt is a copy of the second one, c.txt is never written
ContentsOf(p) == IF p = "a.txt" THEN {1, 2} ELSE IF p = "b.txt" THEN {2} ELSE {}

FileSizeOf(p) == IF p = "a.txt" THEN 1 ELSE IF p = "b.txt" THEN 2 ELSE 3

\* the single folder configuration of the model; every path lies under it
FolderId == 1

Flows == {"s3", "legacy"}

\* polls answered "not complete" or failing, per run
MaxPolls == 2

\* largest upload queue handed to uploadBatch in the orchestrator-only runs
MaxQueue == 7

UPLOAD_CONCURRENCY == 5

LegacyBatchSize == 10

\* bound on each file count the Gateway reports for an incomplete run
MaxResumeFiles == 2

\* bound on the number of files an I/O error hits during one scan
MaxVanished == 1

\* ids the store hands out before the model stops inserting
MaxFileId == 4

MaxFolderConfigId == 2

\* cron tasks created before the model stops starting the scheduler
MaxTasks == 3

(***************************************************************************)
(* State                                                                   *)
(***************************************************************************)
VARIABLES
    flow,               \* which build of sync-engine.ts runs
    config,             \* DatabaseManager.data.config: is the key set?
    folderConfigs,      \* ids of the enabled folder configurations
    files,              \* DatabaseManager.data.files, keyed by filePath
    disk,               \* the file system: path -> content hash (0: absent)
    isRunning,          \* SyncEngine.isRunning
    currentSyncRunId,   \* SyncEngine.currentSyncRunId (0: null)
    syncStatus,         \* SyncEngine.syncStatus
    activeRuns,         \* performSync invocations past the entry guard
    pc,                 \* the await the active performSync is suspended at
    run,                \* the locals of the active performSync and its callees
    poll,               \* S3UploadService.pollSyncStatus of the latest attempt
    calls,              \* Gateway calls issued by the latest attempt
    completeSent,       \* completeSyncRun requests of the latest attempt
    confirmSent,        \* confirmUploads requests of the latest attempt
    deleteSent,         \* deleteBatch requests of the latest attempt
    deleteReply,        \* what the latest deleteBatch call returned
    result,             \* how the latest performSync call ended
    resume,             \* SyncEngine.checkAndResumeIncompleteSync: locals, calls
    scanner,            \* FileScanner.scanDirectory: config, entries, results
    data,               \* DatabaseManager.data: folderConfigs and files as lists
    sched               \* SyncScheduler: stored schedule, currentTask, cron tasks

vars == <<flow, config, folderConfigs, files, disk, isRunning, currentSyncRunId,
          syncStatus, activeRuns, pc, run, poll, calls, completeSent,
          confirmSent, deleteSent, deleteReply, result, resume, scanner,
                   data, sched>>

\* what performSync and its callees never write
envVars == <<flow, config, folderConfigs, disk, resume, scanner, data, sched>>

(***************************************************************************)
(* Values                                                                  *)
(***************************************************************************)
NoRecord == [status |-> "none", fileHash |-> 0, documentId |-> 0, errorMessage |-> ""]

\* DatabaseManager.loadData without a saved file
NoData == [folderConfigs |-> <<>>, files |-> <<>>]

\* getSchedule() of a store without a schedule entry
NoSchedule == [enabled |-> FALSE, frequency |-> "null", expr |-> "none"]

\* SyncScheduler after construction
NoSched == [schedule |-> NoSchedule, currentTask |-> 0, active |-> {},
            created |-> 0, last |-> "none"]

NoError == [name |-> "", message |-> ""]

JsError(msg) == [name |-> "Error", message |-> msg]

\* a rejected axios request
GatewayError == [name |-> "AxiosError", message |-> "Network Error"]

\* String(error)
ErrorString(e) == e.name \o ": " \o e.message

IdleStatus ==
    [isRunning |-> FALSE, currentSyncRunId |-> 0, lastSyncAt |-> 0,
     filesScanned |-> 0, filesNew |-> 0, filesUpdated |-> 0, filesDeleted |-> 0,
     filesFailed |-> 0, filesSkipped |-> 0, filesCompleted |-> 0,
     bytesProcessed |-> 0, progress |-> 0]

\* a start that keeps what the previous run left in SyncStatus
StatusKept == [syncStatus EXCEPT !.isRunning = TRUE]

\* the SyncStatus performSync installs after the entry guard
ResetStatus == [IdleStatus EXCEPT !.isRunning = TRUE]

NoCalls ==
    [createSyncRun |-> 0, checkHashes |-> 0, requestBatchUpload |-> 0,
     s3Put |-> 0, confirmUploads |-> 0, getSyncStatus |-> 0, uploadBatch |-> 0,
     deleteBatch |-> 0, completeSyncRun |-> 0]

\* the locals of S3UploadService.uploadBatch
NoUpload ==
    [files |-> <<>>, uploads |-> <<>>, skipped |-> {}, i |-> 0, xfer |-> <<>>,
     uploaded |-> <<>>, failed |-> <<>>, completedCount |-> 0,
     confirmed |-> "none", returned |-> "no", error |-> NoError]

NoFinal == [filesCompleted |-> 0, filesFailed |-> 0, filesSkipped |-> 0]

\* pollSyncStatus before its first answer: rounds rescheduled, latest answer
NoPoll == [count |-> 0, last |-> "none"]

\* the locals of performSync before its first statement
NoRun ==
    [scannedFiles |-> [p \in Paths |-> 0],
     hashCheckResults |-> {},
     filesToUpload |-> <<>>,
     failedFilesDetails |-> <<>>,
     filesToDelete |-> <<>>,
     pathsToDelete |-> {},
     error |-> NoError,
     ub |-> NoUpload,
     i |-> 0]

NoResult == [kind |-> "none", error |-> NoError]

\* no deleteBatch call has returned
NoReply == [kind |-> "none", deletedCount |-> 0, errors |-> 0]

\* checkAndResumeIncompleteSync before it is called
NoResume ==
    [pc |-> "idle",
     incompleteSync |-> [found |-> FALSE, filesCompleted |-> 0, filesPending |-> 0],
     returned |-> "none",
     getIncompleteSyncs |-> 0,
     resumeSync |-> 0]

\* the names a scanned directory can hold, in readdirSync order
EntryNames == {".env", "X.PDF", "docs", "x.pdf", "y.txt"}

EntryOrder == <<".env", "X.PDF", "docs", "x.pdf", "y.txt">>

\* the files the subdirectory docs can hold
SubEntryNames == {"docs/w.txt", "docs/z.pdf"}

SubEntryOrder == <<"docs/w.txt", "docs/z.pdf">>

\* FolderConfig: fileExtensions (null or a list), ignoreHidden,
\* maxFileSizeMb (0: not set), includeSubfolders
FolderScanConfigs ==
    [fileExtensions : {[null |-> TRUE, items |-> {}]} \cup
                      {[null |-> FALSE, items |-> f] : f \in SUBSET {".pdf", ".PDF", ".txt"}},
     ignoreHidden : BOOLEAN,
     maxFileSizeMb : {0, 1},
     includeSubfolders : BOOLEAN]

\* no directory is being scanned.  entries: what readdirSync listed; sub:
\* the subdirectory docs (can it be read, what it lists); vanished: the
\* listed files that statSync or the hash stream fails on; failed: the
\* catch block of the directory was reached
NoScanner ==
    [config |-> [fileExtensions |-> [null |-> TRUE, items |-> {}],
                 ignoreHidden |-> FALSE, maxFileSizeMb |-> 0,
                 includeSubfolders |-> FALSE],
     entries |-> <<>>,
     sub |-> [readable |-> TRUE, entries |-> <<>>],
     vanished |-> {},
     i |-> 0, files |-> <<>>, failed |-> FALSE]

\* the id the Gateway gives the SyncRun of the current attempt
NewRunId == 1

Min(a, b) == IF a < b THEN a ELSE b

Range(s) == {s[k] : k \in 1..Len(s)}

RECURSIVE SeqSum(_)
SeqSum(s) == IF s = <<>> THEN 0 ELSE Head(s) + SeqSum(Tail(s))

\* Math.floor((a / b) * c) for non-negative integers
FloorFrac(a, b, c) == (a * c) \div b

(***************************************************************************)
(* DatabaseManager                                                         *)
(***************************************************************************)
getFileByPath(fs, p) == fs[p]

getFilesByStatus(fs, st) == {p \in Paths : fs[p].status = st}

deleteFilesByPaths(fs, ps) == [p \in Paths |-> IF p \in ps THEN NoRecord ELSE fs[p]]

(***************************************************************************)
(* The reply of the start-sync IPC handler to a manual call                *)
(***************************************************************************)
IpcReply ==
    IF result.kind = "ok" THEN [success |-> TRUE, error |-> ""]
    ELSE [success |-> FALSE, error |-> ErrorString(result.error)]

(***************************************************************************)
(* Initial state: a fresh install (empty tracking store), any disk         *)
(***************************************************************************)
Idle ==
    /\ isRunning = FALSE
    /\ currentSyncRunId = 0
    /\ syncStatus = IdleStatus
    /\ activeRuns = 0
    /\ pc = "idle"
    /\ run = NoRun
    /\ poll = NoPoll
    /\ calls = NoCalls
    /\ completeSent = <<>>
    /\ confirmSent = <<>>
    /\ deleteSent = <<>>
    /\ deleteReply = NoReply
    /\ result = NoResult

Init ==
    /\ flow \in Flows
    /\ config \in [apiToken : BOOLEAN, integrationId : BOOLEAN]
    /\ folderConfigs \in SUBSET {FolderId}
    /\ files = [p \in Paths |-> NoRecord]
    /\ disk \in {d \in [Paths -> Hashes \cup {0}] :
                    \A p \in Paths : d[p] = 0 \/ d[p] \in ContentsOf(p)}
    /\ Idle
    /\ resume = NoResume
    /\ scanner = NoScanner
    /\ data = NoData
    /\ sched = NoSched

(***************************************************************************)
(* The environment: files are written and removed at any time              *)
(***************************************************************************)
DiskWrite(p, h) ==
    /\ h \in ContentsOf(p)
    /\ disk[p] # h
    /\ disk' = [disk EXCEPT ![p] = h]
    /\ UNCHANGED <<flow, config, folderConfigs, files, isRunning, currentSyncRunId,
                   syncStatus, activeRuns, pc, run, poll, calls, completeSent,
                   confirmSent, deleteSent, deleteReply, result, resume, scanner,
                   data, sched>>

DiskRemove(p) ==
    /\ disk[p] # 0
    /\ disk' = [disk EXCEPT ![p] = 0]
    /\ UNCHANGED <<flow, config, folderConfigs, files, isRunning, currentSyncRunId,
                   syncStatus, activeRuns, pc, run, poll, calls, completeSent,
                   confirmSent, deleteSent, deleteReply, result, resume, scanner,
                   data, sched>>

(***************************************************************************)
(* performSync: the ways a synchronous stretch ends.  Each of the four     *)
(* operators below sets isRunning, currentSyncRunId, syncStatus,           *)
(* activeRuns, pc, run, calls, completeSent and result.                    *)
(***************************************************************************)
\* a finally block that leaves the guard and the run id set
FinallyNoReset(ss, res, cl, cs) ==
    /\ isRunning' = isRunning
    /\ currentSyncRunId' = currentSyncRunId
    /\ syncStatus' = ss
    /\ activeRuns' = activeRuns - 1
    /\ pc' = "idle"
    /\ run' = NoRun
    /\ result' = res
    /\ calls' = cl
    /\ completeSent' = cs

\* a finally block that clears the engine's fields and leaves SyncStatus
FinallyStatusKept(ss, res, cl, cs) ==
    /\ isRunning' = FALSE
    /\ currentSyncRunId' = 0
    /\ syncStatus' = ss
    /\ activeRuns' = activeRuns - 1
    /\ pc' = "idle"
    /\ run' = NoRun
    /\ result' = res
    /\ calls' = cl
    /\ completeSent' = cs

\* the finally block, then the promise settles with res
Finally(ss, res, cl, cs) ==
    /\ isRunning' = FALSE
    /\ currentSyncRunId' = 0
    /\ syncStatus' = [ss EXCEPT !.isRunning = FALSE, !.currentSyncRunId = 0]
    /\ activeRuns' = activeRuns - 1
    /\ pc' = "idle"
    /\ run' = NoRun
    /\ result' = res
    /\ calls' = cl
    /\ completeSent' = cs

StatsOf(ss) ==
    [filesScanned |-> ss.filesScanned, filesNew |-> ss.filesNew,
     filesUpdated |-> ss.filesUpdated, filesDeleted |-> ss.filesDeleted,
     filesFailed |-> ss.filesFailed, filesSkipped |-> ss.filesSkipped,
     bytesProcessed |-> ss.bytesProcessed]

\* the stats of the 'completed' report of the S3 build
S3CompletedStats(ss) ==
    [filesScanned |-> ss.filesScanned, filesNew |-> 0, filesUpdated |-> 0,
     filesDeleted |-> ss.filesDeleted, filesFailed |-> 0,
     filesSkipped |-> ss.filesSkipped, bytesProcessed |-> 0]

\* a catch block that re-throws without the failure report
ThrowUnreported(e, rid, ss, r, cl, cs) ==
    Finally(ss, [kind |-> "error", error |-> e], cl, cs)

\* an exception e reaches the catch block while currentSyncRunId is rid
Throw(e, rid, ss, r, cl, cs) ==
    IF rid # 0 /\ config.integrationId
    THEN /\ pc' = "failReport"
         /\ run' = [r EXCEPT !.error = e]
         /\ calls' = [cl EXCEPT !.completeSyncRun = @ + 1]
         /\ completeSent' = Append(cs, [status |-> "failed", stats |-> StatsOf(ss),
                                        errorMessage |-> ErrorString(e)])
         /\ syncStatus' = ss
         /\ currentSyncRunId' = rid
         /\ UNCHANGED <<isRunning, activeRuns, result>>
    ELSE Finally(ss, [kind |-> "error", error |-> e], cl, cs)

\* a completion report that ignores the failures
AlwaysCompleted(ss) == "completed"

\* the status of the completion report
FinalStatus(ss) == IF ss.filesFailed > 0 THEN "partial" ELSE "completed"

\* "Complete sync run" up to the end of the try block
Finalize(ss, r, cl, cs) ==
    IF flow = "s3"
    THEN IF Len(r.filesToUpload) = 0
         THEN /\ pc' = "complete"
              /\ run' = r
              /\ calls' = [cl EXCEPT !.completeSyncRun = @ + 1]
              /\ completeSent' = Append(cs, [status |-> "completed",
                                             stats |-> S3CompletedStats(ss),
                                             errorMessage |-> ""])
              /\ syncStatus' = ss
              /\ UNCHANGED <<isRunning, currentSyncRunId, activeRuns, result>>
         ELSE Finally([ss EXCEPT !.lastSyncAt = 1, !.progress = 100],
                      [kind |-> "ok", error |-> NoError],
                      cl, cs)
    ELSE /\ pc' = "complete"
         /\ run' = r
         /\ calls' = [cl EXCEPT !.completeSyncRun = @ + 1]
         /\ completeSent' = Append(cs, [status |-> FinalStatus(ss),
                                        stats |-> StatsOf(ss), errorMessage |-> ""])
         /\ syncStatus' = ss
         /\ UNCHANGED <<isRunning, currentSyncRunId, activeRuns, result>>

\* FileScanner.fileExists
fileExists(p) == disk[p] # 0

\* the test of Phase 4 on one tracked file
IsDeletionCandidate(sc, p) == sc[p] = 0 /\ ~fileExists(p)

\* Phase 4 and what follows it, entered with progress at 80; also sets
\* deleteSent and leaves deleteReply as it is
PhaseDelete(ss, fs, r, cl, cs) ==
    LET allTrackedFiles == getFilesByStatus(fs, "synced")
        gone == {p \in allTrackedFiles : IsDeletionCandidate(r.scannedFiles, p)}
        goneSeq == SelectSeq(PathOrder, LAMBDA p : p \in gone)
        toDelete == [k \in 1..Len(goneSeq) |-> fs[goneSeq[k]].fileHash]
        ss80 == [ss EXCEPT !.progress = 80, !.filesDeleted = @ + Len(toDelete)]
        r4 == [r EXCEPT !.filesToDelete = toDelete,
                        !.pathsToDelete = {p \in allTrackedFiles :
                                              fs[p].fileHash \in Range(toDelete)}]
    IN IF Len(toDelete) > 0
       THEN /\ pc' = "deleteBatch"
            /\ run' = r4
            /\ calls' = [cl EXCEPT !.deleteBatch = @ + 1]
            /\ deleteSent' = Append(deleteSent, toDelete)
            /\ deleteReply' = deleteReply
            /\ completeSent' = cs
            /\ syncStatus' = ss80
            /\ UNCHANGED <<isRunning, currentSyncRunId, activeRuns, result>>
       ELSE /\ Finalize([ss80 EXCEPT !.progress = 95], r4, cl, cs)
            /\ deleteSent' = deleteSent
            /\ deleteReply' = deleteReply

(***************************************************************************)
(* performSync: entry (start-sync IPC handler, scheduler tick)             *)
(***************************************************************************)
\* an entry guard that lets every call through
EntryGuardOff(running) == FALSE

\* the entry guard: is the call rejected?
EntryGuard(running) == running

\* an initializeApiClient that never finds the token missing
ApiClientReady == TRUE

\* SyncEngine.initializeApiClient
initializeApiClient == config.apiToken

performSync ==
    /\ UNCHANGED <<envVars, files>>
    /\ IF EntryGuard(isRunning)
       THEN /\ result' = [kind |-> "error",
                          error |-> JsError("Sync already running")]
            /\ UNCHANGED <<isRunning, currentSyncRunId, syncStatus, activeRuns, pc,
                           run, poll, calls, completeSent, confirmSent, deleteSent, deleteReply>>
       ELSE IF ~initializeApiClient
       THEN /\ result' = [kind |-> "error",
                          error |-> JsError("API not configured. Please configure API settings first.")]
            /\ UNCHANGED <<isRunning, currentSyncRunId, syncStatus, activeRuns, pc,
                           run, poll, calls, completeSent, confirmSent, deleteSent, deleteReply>>
       ELSE /\ poll' = NoPoll
            /\ confirmSent' = <<>>
            /\ deleteSent' = <<>>
            /\ deleteReply' = NoReply
            /\ completeSent' = <<>>
            /\ IF ~config.integrationId
               THEN \* thrown inside the try block before any await: the catch
                    \* block finds no run id, the finally block resets the guard
                    /\ isRunning' = FALSE
                    /\ currentSyncRunId' = 0
                    /\ syncStatus' = IdleStatus
                    /\ activeRuns' = activeRuns
                    /\ pc' = "idle"
                    /\ run' = NoRun
                    /\ calls' = NoCalls
                    /\ result' = [kind |-> "error",
                                  error |-> JsError("Integration ID not configured")]
               ELSE /\ isRunning' = TRUE
                    /\ currentSyncRunId' = currentSyncRunId
                    /\ syncStatus' = ResetStatus
                    /\ activeRuns' = activeRuns + 1
                    /\ pc' = "createSyncRun"
                    /\ run' = NoRun
                    /\ calls' = [NoCalls EXCEPT !.createSyncRun = 1]
                    /\ result' = [kind |-> "pending", error |-> NoError]

\* ipcMain.handle('start-sync')
StartSyncIpc == performSync

\* the cron callback of SyncScheduler.start
SchedulerTick ==
    IF ~isRunning
    THEN performSync
    ELSE UNCHANGED vars

(***************************************************************************)
(* performSync: createSyncRun returns; the folder check; the scan          *)
(***************************************************************************)
\* a folder list that is never found empty
AnyFolderConfigs == {FolderId}

enabledFolderConfigs == folderConfigs

CreateSyncRunReturn ==
    /\ pc = "createSyncRun"
    /\ UNCHANGED <<envVars, files, poll, confirmSent, deleteSent, deleteReply>>
    /\ \/ Throw(GatewayError, currentSyncRunId, syncStatus, run, calls, completeSent)
       \/ LET ss == [syncStatus EXCEPT !.currentSyncRunId = NewRunId]
          IN IF enabledFolderConfigs = {}
             THEN Throw(JsError("No folder configurations found"), NewRunId, ss,
                        run, calls, completeSent)
             ELSE /\ pc' = "scan"
                  /\ currentSyncRunId' = NewRunId
                  /\ syncStatus' = ss
                  /\ UNCHANGED <<isRunning, activeRuns, result, run, calls,
                                 completeSent>>

\* FileScanner.scanFolder: the files it lists are on disk; a subtree that
\* cannot be read is left out
ScanResults == {s \in [Paths -> Hashes \cup {0}] :
                   \A p \in Paths : s[p] = 0 \/ s[p] = disk[p]}

ScanReturn ==
    /\ pc = "scan"
    /\ \E s \in ScanResults :
          /\ run' = [run EXCEPT !.scannedFiles = s]
          /\ syncStatus' = [syncStatus EXCEPT
                               !.filesScanned = Cardinality({p \in Paths : s[p] # 0}),
                               !.progress = 10]
    /\ pc' = "checkHashes"
    /\ calls' = [calls EXCEPT !.checkHashes = @ + 1]
    /\ UNCHANGED <<envVars, files, isRunning, currentSyncRunId, activeRuns, poll,
                   completeSent, confirmSent, deleteSent, deleteReply, result>>

(***************************************************************************)
(* performSync: Phase 2 (reconcile)                                        *)
(***************************************************************************)
\* the hash comparison without the test for an existing record
WasModifiedNoRecord(existingFile, fileHash) == existingFile.fileHash # fileHash

\* const wasModified = existingFile && existingFile.fileHash !== fileData.fileHash
WasModified(existingFile, fileHash) ==
    existingFile.status # "none" /\ existingFile.fileHash # fileHash

\* the branch the loop of Phase 2 takes for a scanned file
Branch(fs, exists, p, h) ==
    IF h \notin exists THEN "upload"
    ELSE IF WasModified(getFileByPath(fs, p), h) THEN "pointer"
    ELSE "unchanged"

\* a queue entry that is tagged 'new' whatever the tracking store holds
UploadTypeNew(fs, p) == "new"

UploadType(fs, p) == IF getFileByPath(fs, p).status # "none" THEN "updated" ELSE "new"

\* the remote document of a known hash
DocumentOf(h) == h

SyncedRecord(h) ==
    [status |-> "synced", fileHash |-> h, documentId |-> DocumentOf(h), errorMessage |-> ""]

\* the tracking store after the loop of Phase 2
ReconciledFiles(fs, sc, exists) ==
    [p \in Paths |->
        IF sc[p] # 0 /\ Branch(fs, exists, p, sc[p]) # "upload"
        THEN SyncedRecord(sc[p])
        ELSE fs[p]]

QueueOf(fs, sc, exists) ==
    LET q == SelectSeq(PathOrder,
                 LAMBDA p : sc[p] # 0 /\ Branch(fs, exists, p, sc[p]) = "upload")
    IN [k \in 1..Len(q) |->
           [filePath |-> q[k], fileHash |-> sc[q[k]], uploadType |-> UploadType(fs, q[k])]]

CountBranch(fs, sc, exists, b) ==
    Cardinality({p \in Paths : sc[p] # 0 /\ Branch(fs, exists, p, sc[p]) = b})

\* hashes of the scanned files
ScannedHashes(sc) == {sc[p] : p \in Paths} \ {0}

\* Phase 2 without the count of skipped files
ReconciledStatusNoSkip(ss, fs, sc, exists) ==
    [ss EXCEPT !.filesUpdated = @ + CountBranch(fs, sc, exists, "pointer"),
               !.progress = 30]

\* SyncStatus after the loop of Phase 2
ReconciledStatus(ss, fs, sc, exists) ==
    [ss EXCEPT !.filesUpdated = @ + CountBranch(fs, sc, exists, "pointer"),
               !.filesSkipped = @ + CountBranch(fs, sc, exists, "unchanged"),
               !.progress = 30]

CheckHashesReturn ==
    /\ pc = "checkHashes"
    /\ UNCHANGED <<envVars, confirmSent, poll>>
    /\ \/ /\ Throw(GatewayError, currentSyncRunId, syncStatus, run, calls, completeSent)
          /\ UNCHANGED <<files, deleteSent, deleteReply>>
       \/ \E exists \in SUBSET ScannedHashes(run.scannedFiles) :
             LET fs == ReconciledFiles(files, run.scannedFiles, exists)
                 q == QueueOf(files, run.scannedFiles, exists)
                 ss == ReconciledStatus(syncStatus, files, run.scannedFiles, exists)
                 r == [run EXCEPT !.hashCheckResults = exists, !.filesToUpload = q]
             IN /\ files' = fs
                /\ IF Len(q) > 0
                   THEN /\ syncStatus' = ss
                        /\ IF flow = "s3"
                           THEN /\ pc' = "ub_request"
                                /\ run' = [r EXCEPT !.ub = [NoUpload EXCEPT
                                              !.files = [k \in 1..Len(q) |-> q[k].fileHash]]]
                                /\ calls' = [calls EXCEPT !.requestBatchUpload = @ + 1]
                           ELSE /\ pc' = "legacy_upload"
                                /\ run' = [r EXCEPT !.i = 0]
                                /\ calls' = [calls EXCEPT !.uploadBatch = @ + 1]
                        /\ UNCHANGED <<isRunning, currentSyncRunId, activeRuns, result,
                                       completeSent, deleteSent, deleteReply>>
                   ELSE PhaseDelete(ss, fs, r, calls, completeSent)

(***************************************************************************)
(* S3UploadService.uploadBatch                                             *)
(***************************************************************************)
RECURSIVE Distinct(_)
\* the elements of s in the order of their first occurrence
Distinct(s) ==
    IF s = <<>> THEN <<>>
    ELSE LET r == Distinct(SubSeq(s, 1, Len(s) - 1))
         IN IF s[Len(s)] \in Range(r) THEN r ELSE Append(r, s[Len(s)])

\* a slice without its upper end
RestOf(u, i) == (i + 1)..Len(u.uploads)

\* uploads.slice(i, i + UPLOAD_CONCURRENCY), as indices into uploads
BatchOf(u, i) == (i + 1)..Min(i + UPLOAD_CONCURRENCY, Len(u.uploads))

\* a batch start that also restarts the transfers of the earlier batches
StartBatchAgain(u, i) ==
    [u EXCEPT !.i = i,
              !.xfer = [k \in 1..Len(u.uploads) |->
                           IF k <= Min(i + UPLOAD_CONCURRENCY, Len(u.uploads))
                           THEN "inflight" ELSE u.xfer[k]]]

\* batch.map(async upload => ...): every transfer of the batch is started
StartBatch(u, i) ==
    [u EXCEPT !.i = i,
              !.xfer = [k \in 1..Len(u.uploads) |->
                           IF k \in BatchOf(u, i) THEN "inflight" ELSE u.xfer[k]]]

\* transfers that are not awaited
NoneInFlight(u) == {}

InFlight(u) == {k \in 1..Len(u.xfer) : u.xfer[k] = "inflight"}

\* the error message recorded for a transfer that failed
TransferError == "S3 upload failed: 500 Internal Server Error"

\* the onProgress callback performS3Upload hands to uploadBatch
OnProgress(ss, uploaded, total) ==
    [ss EXCEPT !.progress = 30 + FloorFrac(uploaded, total, 30)]

UBUnchanged ==
    UNCHANGED <<envVars, files, isRunning, currentSyncRunId, activeRuns,
                completeSent, deleteSent, deleteReply, poll, result>>

\* uploadBatch returns or throws: its caller resumes in S3UploadReturned
UBReturn(u, how, e) ==
    /\ pc' = "ub_returned"
    /\ run' = [run EXCEPT !.ub = [u EXCEPT !.returned = how, !.error = e]]

\* after the large-upload confirmation: early return or the first batch
UBProceed(u) ==
    IF Len(u.uploads) = 0
    THEN UBReturn(u, "ok", NoError) /\ UNCHANGED calls
    ELSE /\ pc' = "ub_transfer"
         /\ run' = [run EXCEPT !.ub = StartBatch(u, 0)]
         /\ calls' = [calls EXCEPT !.s3Put = @ + Cardinality(BatchOf(u, 0))]

\* requestBatchUpload returns: some of the requested hashes are granted an
\* upload URL, the others are reported as skipped
UBRequestReturn ==
    /\ pc = "ub_request"
    /\ UBUnchanged
    /\ UNCHANGED <<syncStatus, confirmSent>>
    /\ \/ UBReturn(run.ub, "threw", GatewayError) /\ UNCHANGED calls
       \/ \E granted \in SUBSET Range(run.ub.files), requiresConfirmation \in BOOLEAN :
             LET ups == SelectSeq(Distinct(run.ub.files), LAMBDA h : h \in granted)
                 u == [run.ub EXCEPT !.uploads = ups,
                                     !.skipped = Range(run.ub.files) \ granted,
                                     !.xfer = [k \in 1..Len(ups) |-> "waiting"]]
             IN IF requiresConfirmation
                THEN /\ pc' = "ub_dialog"
                     /\ run' = [run EXCEPT !.ub = [u EXCEPT !.confirmed = "asked"]]
                     /\ UNCHANGED calls
                ELSE UBProceed(u)

\* a large-upload guard that goes on whatever the operator answered
DialogIgnored(u, confirmed) == UBProceed(u)

\* if (!confirmed) throw new Error('Upload cancelled by user')
DialogOutcome(u, confirmed) ==
    IF ~confirmed
    THEN UBReturn(u, "threw", JsError("Upload cancelled by user")) /\ UNCHANGED calls
    ELSE UBProceed(u)

\* showLargeUploadConfirmation returns: result.response === 0 or not
UBDialogReturn ==
    /\ pc = "ub_dialog"
    /\ UBUnchanged
    /\ UNCHANGED <<syncStatus, confirmSent>>
    /\ \E confirmed \in BOOLEAN :
          DialogOutcome([run.ub EXCEPT !.confirmed = IF confirmed THEN "yes" ELSE "no"],
                        confirmed)

\* one uploadToS3 call settles
TransferResolve(k) ==
    /\ pc = "ub_transfer"
    /\ k \in InFlight(run.ub)
    /\ \E outcome \in {"ok", "fail"} : run' = [run EXCEPT !.ub.xfer[k] = outcome]
    /\ UBUnchanged
    /\ UNCHANGED <<pc, syncStatus, calls, confirmSent>>

\* Promise.allSettled resolves: the results loop, then the next batch or
\* the confirmation call
UBBatchSettled ==
    /\ pc = "ub_transfer"
    /\ InFlight(run.ub) = {}
    /\ UBUnchanged
    /\ LET ub == run.ub
           b == BatchOf(ub, ub.i)
           bs == [k \in 1..Cardinality(b) |-> ub.i + k]
           ok == SelectSeq(bs, LAMBDA k : ub.xfer[k] = "ok")
           ko == SelectSeq(bs, LAMBDA k : ub.xfer[k] # "ok")
           u == [ub EXCEPT
                    !.uploaded = @ \o [j \in 1..Len(ok) |-> ub.uploads[ok[j]]],
                    !.failed = @ \o [j \in 1..Len(ko) |-> ub.uploads[ko[j]]],
                    !.completedCount = @ + Len(bs)]
           next == ub.i + UPLOAD_CONCURRENCY
       IN /\ syncStatus' = OnProgress(syncStatus, u.completedCount, Len(ub.uploads))
          /\ IF next < Len(ub.uploads)
             THEN /\ run' = [run EXCEPT !.ub = StartBatch(u, next)]
                  /\ pc' = pc
                  /\ calls' = [calls EXCEPT !.s3Put = @ + Cardinality(BatchOf(u, next))]
                  /\ UNCHANGED confirmSent
             ELSE IF Len(u.uploaded) > 0 \/ Len(u.failed) > 0
             THEN /\ run' = [run EXCEPT !.ub = u]
                  /\ pc' = "ub_confirm"
                  /\ calls' = [calls EXCEPT !.confirmUploads = @ + 1]
                  /\ confirmSent' = Append(confirmSent,
                                           [uploadedFiles |-> u.uploaded,
                                            failedFiles |-> u.failed])
             ELSE /\ UBReturn(u, "ok", NoError)
                  /\ UNCHANGED <<calls, confirmSent>>

UBConfirmReturn ==
    /\ pc = "ub_confirm"
    /\ UBUnchanged
    /\ UNCHANGED <<syncStatus, calls, confirmSent>>
    /\ \/ UBReturn(run.ub, "threw", GatewayError)
       \/ UBReturn(run.ub, "ok", NoError)

(***************************************************************************)
(* performS3Upload: after uploadBatch, the poll, the catch block           *)
(***************************************************************************)
\* filesToUpload.find(f => f.fileHash === h)
FirstWithHash(q, h) == q[CHOOSE k \in 1..Len(q) :
                            /\ q[k].fileHash = h
                            /\ \A j \in 1..(k - 1) : q[j].fileHash # h]

PathsOf(q, hs) == {q[k].filePath : k \in {j \in 1..Len(q) : q[j].fileHash \in hs}}

PendingRecord(h) ==
    [status |-> "pending", fileHash |-> h, documentId |-> 0, errorMessage |-> ""]

FailedRecord(h, msg) ==
    [status |-> "failed", fileHash |-> h, documentId |-> 0, errorMessage |-> msg]

IndexOfPath(q, p) == (CHOOSE k \in 1..Len(q) : q[k].filePath = p)

\* the tracking store after the two loops that follow uploadBatch
UploadedFiles(fs, q, u) ==
    LET failedPaths == {FirstWithHash(q, u.failed[j]).filePath : j \in 1..Len(u.failed)}
        pendingPaths == PathsOf(q, Range(u.uploaded))
    IN [p \in Paths |->
           IF p \in failedPaths THEN FailedRecord(q[IndexOfPath(q, p)].fileHash, TransferError)
           ELSE IF p \in pendingPaths THEN PendingRecord(q[IndexOfPath(q, p)].fileHash)
           ELSE fs[p]]

\* SyncStatus after the two loops that follow uploadBatch
UploadedStatus(ss, q, u) ==
    LET up == Range(u.uploaded)
    IN [ss EXCEPT
           !.bytesProcessed = @ + SeqSum([k \in 1..Len(q) |->
                                  IF q[k].fileHash \in up
                                  THEN FileSizeOf(q[k].filePath) ELSE 0]),
           !.filesNew = @ + Cardinality({k \in 1..Len(q) :
                                  q[k].fileHash \in up /\ q[k].uploadType = "new"}),
           !.filesUpdated = @ + Cardinality({k \in 1..Len(q) :
                                  q[k].fileHash \in up /\ q[k].uploadType = "updated"}),
           !.filesSkipped = @ + Cardinality({k \in 1..Len(q) :
                                  q[k].fileHash \notin up /\ q[k].fileHash \in u.skipped}),
           !.filesFailed = @ + Len(u.failed)]

FailureDetails(q, u) ==
    [j \in 1..Len(u.failed) |->
        [filePath |-> FirstWithHash(q, u.failed[j]).filePath, error |-> TransferError]]

\* the tracking store after the catch block of performS3Upload
AllFailedFiles(fs, q, msg) ==
    [p \in Paths |->
        IF \E k \in 1..Len(q) : q[k].filePath = p
        THEN FailedRecord(q[IndexOfPath(q, p)].fileHash, msg)
        ELSE fs[p]]

\* what is left of uploadBatch once it has returned or thrown: its result
S3UploadResult(u) ==
    [NoUpload EXCEPT !.uploaded = u.uploaded, !.failed = u.failed,
                     !.skipped = u.skipped, !.returned = u.returned,
                     !.error = u.error]

S3UploadReturned ==
    /\ pc = "ub_returned"
    /\ flow = "s3"
    /\ UNCHANGED <<envVars, confirmSent, poll>>
    /\ LET q == run.filesToUpload
       IN IF run.ub.returned = "ok"
          THEN /\ files' = UploadedFiles(files, q, run.ub)
               /\ syncStatus' = UploadedStatus(syncStatus, q, run.ub)
               /\ run' = [run EXCEPT !.ub = S3UploadResult(run.ub),
                                      !.failedFilesDetails = @ \o FailureDetails(q, run.ub)]
               /\ pc' = "poll"
               /\ calls' = [calls EXCEPT !.getSyncStatus = @ + 1]
               /\ UNCHANGED <<isRunning, currentSyncRunId, activeRuns, result,
                              completeSent, deleteSent, deleteReply>>
          ELSE LET msg == ErrorString(run.ub.error)
                   fs == AllFailedFiles(files, q, msg)
                   ss == [syncStatus EXCEPT !.filesFailed = @ + Len(q)]
                   r == [run EXCEPT !.ub = S3UploadResult(run.ub),
                                    !.failedFilesDetails = @ \o
                                       [k \in 1..Len(q) |->
                                           [filePath |-> q[k].filePath, error |-> msg]]]
               IN /\ files' = fs
                  /\ PhaseDelete(ss, fs, r, calls, completeSent)

\* the values of progressPercent the status endpoint reports while the
\* remote is still processing
PollPercents == {0, 50}

\* what the remote reports once processing is complete: every file of the
\* queue ended completed, failed or skipped
FinalReports(n) ==
    {f \in [filesCompleted : 0..n, filesFailed : 0..n, filesSkipped : 0..n] :
        f.filesCompleted + f.filesFailed + f.filesSkipped = n}

\* the onUpdate callback performS3Upload hands to pollSyncStatus
OnUpdate(ss, progressPercent) ==
    [ss EXCEPT !.progress = 60 + FloorFrac(progressPercent, 5, 1)]

\* a poll that resolves on every answer, complete or not
PollResolvesOnAnswer(answer) == answer # "error"

\* a poll that resolves on its first answer, whatever it is
PollResolvesEarly(answer) == TRUE

\* does pollSyncStatus resolve on this answer?
PollResolves(answer) == answer = "complete"

\* setTimeout(poll, intervalMs), the timer fires, getSyncStatus is called
PollAgain(ss, answer) ==
    /\ poll.count < MaxPolls
    /\ poll' = [count |-> poll.count + 1, last |-> answer]
    /\ syncStatus' = ss
    /\ calls' = [calls EXCEPT !.getSyncStatus = @ + 1]
    /\ UNCHANGED <<files, isRunning, currentSyncRunId, activeRuns, pc, run,
                   completeSent, deleteSent, deleteReply, result>>

\* resolve(status): performS3Upload resumes with finalStatus and returns,
\* Phase 4 follows
PollResolved(ss, answer, final) ==
    /\ poll' = [poll EXCEPT !.last = answer]
    /\ files' = files
    /\ PhaseDelete([ss EXCEPT !.filesCompleted = final.filesCompleted,
                              !.filesFailed = final.filesFailed,
                              !.filesSkipped = final.filesSkipped],
                   files, run, calls, completeSent)

\* one round of the poll closure: getSyncStatus answers or fails
PollReturn ==
    /\ pc = "poll"
    /\ UNCHANGED <<envVars, confirmSent>>
    /\ \/ \* the call fails: logged
          IF PollResolves("error")
          THEN PollResolved(syncStatus, "error", NoFinal)
          ELSE PollAgain(syncStatus, "error")
       \/ \* isComplete false
          \E pp \in PollPercents :
             IF PollResolves("incomplete")
             THEN PollResolved(OnUpdate(syncStatus, pp), "incomplete", NoFinal)
             ELSE PollAgain(OnUpdate(syncStatus, pp), "incomplete")
       \/ \* isComplete true
          \E f \in FinalReports(Len(run.filesToUpload)) :
             IF PollResolves("complete")
             THEN PollResolved(OnUpdate(syncStatus, 100), "complete", f)
             ELSE PollAgain(OnUpdate(syncStatus, 100), "complete")

(***************************************************************************)
(* Legacy build: Phase 3 uploads the queue through apiClient.uploadBatch   *)
(***************************************************************************)
LegacyBatch(q, i) == (i + 1)..Min(i + LegacyBatchSize, Len(q))

\* after one batch: the next batch, or Phase 4
LegacyAfterBatch(ss, fs, r) ==
    LET i == r.i
        n == Len(r.filesToUpload)
        ssP == [ss EXCEPT !.progress = 30 + FloorFrac(i, n, 50)]
    IN /\ files' = fs
       /\ IF i + LegacyBatchSize < n
          THEN /\ run' = [r EXCEPT !.i = i + LegacyBatchSize]
               /\ pc' = pc
               /\ syncStatus' = ssP
               /\ calls' = [calls EXCEPT !.uploadBatch = @ + 1]
               /\ UNCHANGED <<isRunning, currentSyncRunId, activeRuns, result,
                              completeSent, deleteSent, deleteReply>>
          ELSE PhaseDelete(ssP, fs, r, calls, completeSent)

LegacyBatchReturn ==
    /\ pc = "legacy_upload"
    /\ flow = "legacy"
    /\ UNCHANGED <<envVars, confirmSent, poll>>
    /\ LET q == run.filesToUpload
           b == LegacyBatch(q, run.i)
       IN \/ \* the request fails: every file of the batch is marked failed
             LET msg == ErrorString(GatewayError)
                 fs == [p \in Paths |->
                           IF \E k \in b : q[k].filePath = p
                           THEN FailedRecord(q[IndexOfPath(q, p)].fileHash, msg)
                           ELSE files[p]]
                 bs == SelectSeq([k \in 1..Len(q) |-> k], LAMBDA k : k \in b)
                 r == [run EXCEPT !.failedFilesDetails = @ \o
                          [j \in 1..Len(bs) |-> [filePath |-> q[bs[j]].filePath, error |-> msg]]]
             IN LegacyAfterBatch(
                    [syncStatus EXCEPT !.filesFailed = @ + Cardinality(b)], fs, r)
          \/ \* per-file results
             \E okIdx \in SUBSET b :
                LET fs == [p \in Paths |->
                              IF \E k \in b : q[k].filePath = p
                              THEN IF IndexOfPath(q, p) \in okIdx
                                   THEN SyncedRecord(q[IndexOfPath(q, p)].fileHash)
                                   ELSE FailedRecord(q[IndexOfPath(q, p)].fileHash,
                                                     "Upload failed")
                              ELSE files[p]]
                    ko == SelectSeq([k \in 1..Len(q) |-> k],
                                    LAMBDA k : k \in b /\ k \notin okIdx)
                    ss == [syncStatus EXCEPT
                              !.bytesProcessed = @ + SeqSum([k \in 1..Len(q) |->
                                     IF k \in okIdx THEN FileSizeOf(q[k].filePath) ELSE 0]),
                              !.filesNew = @ + Cardinality(
                                     {k \in okIdx : q[k].uploadType = "new"}),
                              !.filesUpdated = @ + Cardinality(
                                     {k \in okIdx : q[k].uploadType = "updated"}),
                              !.filesFailed = @ + Len(ko)]
                    r == [run EXCEPT !.failedFilesDetails = @ \o
                             [j \in 1..Len(ko) |->
                                 [filePath |-> q[ko[j]].filePath, error |-> "Upload failed"]]]
                IN LegacyAfterBatch(ss, fs, r)

(***************************************************************************)
(* performSync: deleteBatch, completeSyncRun and the failure report return *)
(***************************************************************************)
\* what the Gateway can answer to a request for n hashes: the number of
\* documents it deleted, with an error entry for each of the others
DeleteReplies(n) == {[kind |-> "ok", deletedCount |-> d, errors |-> n - d] : d \in 0..n}

\* a deleteBatch whose failure is thrown out of Phase 4
DeleteFailureThrown == TRUE

\* is a failure of deleteBatch thrown on to the catch block of performSync?
DeleteFailureRethrown == FALSE

DeleteBatchReturn ==
    /\ pc = "deleteBatch"
    /\ UNCHANGED <<envVars, confirmSent, deleteSent, poll>>
    /\ \/ \* the call returned: the reply is not looked at
          /\ deleteReply' \in DeleteReplies(Len(run.filesToDelete))
          /\ files' = deleteFilesByPaths(files, run.pathsToDelete)
          /\ Finalize([syncStatus EXCEPT !.progress = 95], run, calls, completeSent)
       \/ \* the call failed: logged
          /\ deleteReply' = [NoReply EXCEPT !.kind = "error"]
          /\ files' = files
          /\ IF DeleteFailureRethrown
             THEN Throw(GatewayError, currentSyncRunId, syncStatus, run, calls,
                        completeSent)
             ELSE Finalize([syncStatus EXCEPT !.progress = 95], run, calls,
                           completeSent)

CompleteReturn ==
    /\ pc = "complete"
    /\ UNCHANGED <<envVars, files, confirmSent, deleteSent, deleteReply, poll>>
    /\ \/ Finally([syncStatus EXCEPT !.lastSyncAt = 1, !.progress = 100],
                  [kind |-> "ok", error |-> NoError], calls, completeSent)
       \/ Throw(GatewayError, currentSyncRunId, syncStatus, run, calls, completeSent)

\* the completeSyncRun('failed') of the catch block returns or fails; the
\* original error is re-thrown
FailReportReturn ==
    /\ pc = "failReport"
    /\ UNCHANGED <<envVars, files, confirmSent, deleteSent, deleteReply, poll>>
    /\ Finally(syncStatus, [kind |-> "error", error |-> run.error], calls, completeSent)

(***************************************************************************)
(* SyncEngine.checkAndResumeIncompleteSync                                 *)
(***************************************************************************)
\* what performSync and its callees write
engineVars == <<files, isRunning, currentSyncRunId, syncStatus, activeRuns, pc,
                run, poll, calls, completeSent, confirmSent, deleteSent,
                deleteReply, result>>

\* a new call: the two configuration checks, then getIncompleteSyncs
checkAndResumeIncompleteSync ==
    /\ resume.pc \in {"idle", "done"}
    /\ resume' = IF ~initializeApiClient \/ ~config.integrationId
                 THEN [NoResume EXCEPT !.pc = "done", !.returned = "false"]
                 ELSE [NoResume EXCEPT !.pc = "checkForIncompleteSyncs",
                                       !.getIncompleteSyncs = 1]
    /\ UNCHANGED <<flow, config, folderConfigs, disk, engineVars, scanner, data, sched>>

\* S3UploadService.checkForIncompleteSyncs returns the first run of the
\* list, or null when the list is empty or the call failed
CheckForIncompleteSyncsReturn ==
    /\ resume.pc = "checkForIncompleteSyncs"
    /\ \/ resume' = [resume EXCEPT !.pc = "done", !.returned = "false"]
       \/ \E filesCompleted \in 0..MaxResumeFiles,
             filesPendingUpload \in 0..MaxResumeFiles,
             filesUploadedToS3 \in 0..MaxResumeFiles :
             resume' = [resume EXCEPT
                           !.pc = "promptResumeSync",
                           !.incompleteSync =
                               [found |-> TRUE,
                                filesCompleted |-> filesCompleted,
                                filesPending |-> filesPendingUpload + filesUploadedToS3]]
    /\ UNCHANGED <<flow, config, folderConfigs, disk, engineVars, scanner, data, sched>>

\* the operator answers the dialog; on "continue" the function returns true
\* and does nothing else
PromptResumeSyncReturn ==
    /\ resume.pc = "promptResumeSync"
    /\ \E shouldResume \in BOOLEAN :
          resume' = [resume EXCEPT !.pc = "done",
                                   !.returned = IF shouldResume THEN "true" ELSE "false"]
    /\ UNCHANGED <<flow, config, folderConfigs, disk, engineVars, scanner, data, sched>>

(***************************************************************************)
(* FileScanner.scanDirectory over one directory of plain files             *)
(***************************************************************************)
\* path.extname
extname(name) ==
    CASE name \in {"x.pdf", "docs/z.pdf"} -> ".pdf"
      [] name = "X.PDF" -> ".PDF"
      [] name \in {"y.txt", "docs/w.txt"} -> ".txt"
      [] OTHER -> ""

\* entry.isDirectory()
isDirectory(name) == name = "docs"

\* String.prototype.toLowerCase on the extensions in use
toLowerCase(s) ==
    CASE s = ".PDF" -> ".pdf"
      [] s = ".TXT" -> ".txt"
      [] OTHER -> s

\* entry.name.startsWith('.')
startsWithDot(name) == name = ".env"

\* stats.size / (1024 * 1024)
fileSizeMb(name) == IF name = "X.PDF" THEN 2 ELSE 1

\* the extension test of the loop
PassesExtensionFilter(cfg, name) ==
    IF ~cfg.fileExtensions.null /\ Cardinality(cfg.fileExtensions.items) > 0
    THEN toLowerCase(extname(name)) \in cfg.fileExtensions.items
    ELSE TRUE

\* does the loop body push this file?
Accepts(cfg, name) ==
    /\ ~(cfg.ignoreHidden /\ startsWithDot(name))
    /\ PassesExtensionFilter(cfg, name)
    /\ ~(cfg.maxFileSizeMb # 0 /\ fileSizeMb(name) > cfg.maxFileSizeMb)

\* does the loop body get as far as statSync for this file?
ReachesStat(cfg, name) ==
    /\ ~(cfg.ignoreHidden /\ startsWithDot(name))
    /\ PassesExtensionFilter(cfg, name)

RECURSIVE ScanFiles(_, _, _)
\* the loop over a directory that holds only files: what it pushes.  An
\* I/O error on a file it got to is thrown to the catch block that
\* encloses the loop, which ends it.
ScanFiles(cfg, names, vanished) ==
    IF names = <<>> THEN <<>>
    ELSE IF ReachesStat(cfg, Head(names)) /\ Head(names) \in vanished THEN <<>>
    ELSE IF Accepts(cfg, Head(names))
         THEN <<Head(names)>> \o ScanFiles(cfg, Tail(names), vanished)
         ELSE ScanFiles(cfg, Tail(names), vanished)

\* the recursive call for the subdirectory: readdirSync fails (caught and
\* logged inside the call) or its files are scanned
ScanSubdirectory(cfg, sub, vanished) ==
    IF sub.readable THEN ScanFiles(cfg, sub.entries, vanished) ELSE <<>>

\* one iteration of the loop over the entries of the top directory
ScanEntry ==
    /\ scanner.i < Len(scanner.entries)
    /\ LET name == scanner.entries[scanner.i + 1]
           cfg == scanner.config
       IN scanner' =
             IF cfg.ignoreHidden /\ startsWithDot(name)
             THEN [scanner EXCEPT !.i = @ + 1]
             ELSE IF isDirectory(name)
             THEN [scanner EXCEPT
                      !.i = @ + 1,
                      !.files = IF cfg.includeSubfolders
                                THEN @ \o ScanSubdirectory(cfg, scanner.sub,
                                                           scanner.vanished)
                                ELSE @]
             ELSE IF ReachesStat(cfg, name) /\ name \in scanner.vanished
             THEN \* thrown out of the loop: the remaining entries are not visited
                  [scanner EXCEPT !.i = Len(scanner.entries), !.failed = TRUE]
             ELSE [scanner EXCEPT
                      !.i = @ + 1,
                      !.files = IF Accepts(cfg, name) THEN Append(@, name) ELSE @]
    /\ UNCHANGED <<flow, config, folderConfigs, disk, engineVars, resume, data, sched>>

(***************************************************************************)
(* DatabaseManager: the tracking store as the list it is kept in           *)
(***************************************************************************)
Statuses == {"pending", "synced", "failed"}

\* the FileRecord fields a caller of upsertFile passes (no id)
FileInputs == [filePath : Paths, folderConfigId : 1..MaxFolderConfigId,
               status : Statuses]

\* Array.prototype.findIndex on filePath; 0 stands for -1
findIndex(rows, filePath) ==
    IF \E k \in 1..Len(rows) : rows[k].filePath = filePath
    THEN CHOOSE k \in 1..Len(rows) :
            /\ rows[k].filePath = filePath
            /\ \A j \in 1..(k - 1) : rows[j].filePath # filePath
    ELSE 0

\* Math.max(...ids)
MathMax(S) == CHOOSE m \in S : \A n \in S : n <= m

\* an id taken from the number of rows
NextIdByLength(ids) == Len(ids) + 1

\* the id upsertFile and addFolderConfig give to a new row
NextId(ids) == IF Len(ids) > 0 THEN MathMax(Range(ids)) + 1 ELSE 1

FileIds(rows) == [k \in 1..Len(rows) |-> rows[k].id]

upsertFile(file) ==
    /\ file \in FileInputs
    /\ LET index == findIndex(data.files, file.filePath)
       IN IF index # 0
          THEN data' = [data EXCEPT
                           !.files[index] = [id |-> @.id,
                                             filePath |-> file.filePath,
                                             folderConfigId |-> file.folderConfigId,
                                             status |-> file.status]]
          ELSE /\ NextId(FileIds(data.files)) <= MaxFileId
               /\ data' = [data EXCEPT
                              !.files = Append(@,
                                  [id |-> NextId(FileIds(data.files)),
                                   filePath |-> file.filePath,
                                   folderConfigId |-> file.folderConfigId,
                                   status |-> file.status])]
    /\ UNCHANGED <<flow, config, folderConfigs, disk, engineVars, resume, scanner, sched>>

updateFileStatus(filePath, status) ==
    /\ LET index == findIndex(data.files, filePath)
       IN IF index # 0
          THEN data' = [data EXCEPT !.files[index].status = status]
          ELSE data' = data
    /\ UNCHANGED <<flow, config, folderConfigs, disk, engineVars, resume, scanner, sched>>

deleteFilesByPathsCall(filePaths) ==
    /\ data' = [data EXCEPT
                   !.files = SelectSeq(@, LAMBDA f : f.filePath \notin filePaths)]
    /\ UNCHANGED <<flow, config, folderConfigs, disk, engineVars, resume, scanner, sched>>

addFolderConfig ==
    /\ NextId(data.folderConfigs) <= MaxFolderConfigId
    /\ data' = [data EXCEPT !.folderConfigs = Append(@, NextId(data.folderConfigs))]
    /\ UNCHANGED <<flow, config, folderConfigs, disk, engineVars, resume, scanner, sched>>

deleteFolderConfig(id) ==
    /\ data' = [data EXCEPT
                   !.folderConfigs = SelectSeq(@, LAMBDA f : f # id),
                   !.files = SelectSeq(@, LAMBDA f : f.folderConfigId # id)]
    /\ UNCHANGED <<flow, config, folderConfigs, disk, engineVars, resume, scanner, sched>>

(***************************************************************************)
(* Specification                                                           *)
(***************************************************************************)
Next ==
    \/ StartSyncIpc
    \/ SchedulerTick
    \/ CreateSyncRunReturn
    \/ ScanReturn
    \/ CheckHashesReturn
    \/ UBRequestReturn
    \/ UBDialogReturn
    \/ \E k \in 1..MaxQueue : TransferResolve(k)
    \/ UBBatchSettled
    \/ UBConfirmReturn
    \/ S3UploadReturned
    \/ PollReturn
    \/ LegacyBatchReturn
    \/ DeleteBatchReturn
    \/ CompleteReturn
    \/ FailReportReturn
    \/ \E p \in Paths, h \in Hashes : DiskWrite(p, h)
    \/ \E p \in Paths : DiskRemove(p)

Spec == Init /\ [][Next]_vars

(***************************************************************************)
(* uploadBatch on its own: called with a queue of 1..MaxQueue files of     *)
(* distinct content (file k has hash k), by a run that has passed Phase 2. *)
(* The caller resumes at "ub_returned", which is where this specification  *)
(* stops.                                                                  *)
(***************************************************************************)
InitUB ==
    /\ flow = "s3"
    /\ config = [apiToken |-> TRUE, integrationId |-> TRUE]
    /\ folderConfigs = {FolderId}
    /\ files = [p \in Paths |-> NoRecord]
    /\ disk = [p \in Paths |-> 0]
    /\ isRunning = TRUE
    /\ currentSyncRunId = NewRunId
    /\ activeRuns = 1
    /\ pc = "ub_request"
    /\ \E n \in 1..MaxQueue :
          /\ run = [NoRun EXCEPT !.ub = [NoUpload EXCEPT !.files = [k \in 1..n |-> k]]]
          /\ syncStatus = [ResetStatus EXCEPT !.currentSyncRunId = NewRunId,
                                              !.filesScanned = n, !.progress = 30]
    /\ poll = NoPoll
    /\ calls = [NoCalls EXCEPT !.createSyncRun = 1, !.checkHashes = 1,
                               !.requestBatchUpload = 1]
    /\ completeSent = <<>>
    /\ confirmSent = <<>>
    /\ deleteSent = <<>>
    /\ deleteReply = NoReply
    /\ result = [kind |-> "pending", error |-> NoError]
    /\ resume = NoResume
    /\ scanner = NoScanner
    /\ data = NoData
    /\ sched = NoSched

NextUB ==
    \/ UBRequestReturn
    \/ UBDialogReturn
    \/ \E k \in 1..MaxQueue : TransferResolve(k)
    \/ UBBatchSettled
    \/ UBConfirmReturn

SpecUB == InitUB /\ [][NextUB]_vars

(***************************************************************************)
(* The three-file folder: a.txt is new, b.txt was synced by an earlier     *)
(* run and is unchanged, c.txt is an untracked copy of b.txt.  The folder  *)
(* does not change while the engine runs.                                  *)
(***************************************************************************)
InitScenario ==
    /\ flow \in Flows
    /\ config = [apiToken |-> TRUE, integrationId |-> TRUE]
    /\ folderConfigs = {FolderId}
    /\ files = [p \in Paths |-> IF p = "b.txt" THEN SyncedRecord(2) ELSE NoRecord]
    /\ disk = [p \in Paths |-> IF p = "a.txt" THEN 1 ELSE 2]
    /\ Idle
    /\ resume = NoResume
    /\ scanner = NoScanner
    /\ data = NoData
    /\ sched = NoSched

NextScenario ==
    \/ StartSyncIpc
    \/ SchedulerTick
    \/ CreateSyncRunReturn
    \/ ScanReturn
    \/ CheckHashesReturn
    \/ UBRequestReturn
    \/ UBDialogReturn
    \/ \E k \in 1..MaxQueue : TransferResolve(k)
    \/ UBBatchSettled
    \/ UBConfirmReturn
    \/ S3UploadReturned
    \/ PollReturn
    \/ LegacyBatchReturn
    \/ CompleteReturn
    \/ FailReportReturn

SpecScenario == InitScenario /\ [][NextScenario]_vars

(***************************************************************************)
(* checkAndResumeIncompleteSync on its own, on any installation            *)
(***************************************************************************)
NextResume ==
    \/ checkAndResumeIncompleteSync
    \/ CheckForIncompleteSyncsReturn
    \/ PromptResumeSyncReturn

SpecResume == Init /\ [][NextResume]_vars

(***************************************************************************)
(* One scanDirectory pass: any folder configuration, any directory         *)
(***************************************************************************)
InitScanner ==
    /\ flow = "s3"
    /\ config = [apiToken |-> TRUE, integrationId |-> TRUE]
    /\ folderConfigs = {FolderId}
    /\ files = [p \in Paths |-> NoRecord]
    /\ disk = [p \in Paths |-> 0]
    /\ Idle
    /\ resume = NoResume
    /\ \E cfg \in FolderScanConfigs, present \in SUBSET EntryNames,
          inSub \in SUBSET SubEntryNames, readable \in BOOLEAN :
          \E vanished \in SUBSET ((present \ {"docs"}) \cup inSub) :
             /\ Cardinality(vanished) <= MaxVanished
             /\ ("docs" \notin present) => (inSub = {} /\ readable)
             /\ scanner = [NoScanner EXCEPT
                              !.config = cfg,
                              !.entries = SelectSeq(EntryOrder, LAMBDA n : n \in present),
                              !.sub = [readable |-> readable,
                                       entries |-> SelectSeq(SubEntryOrder,
                                                             LAMBDA n : n \in inSub)],
                              !.vanished = vanished]
    /\ data = NoData
    /\ sched = NoSched

NextScanner == ScanEntry

SpecScanner == InitScanner /\ [][NextScanner]_vars


(***************************************************************************)
(* The runs under fairness: every awaited call settles, the operator       *)
(* answers the dialog, and the status endpoint at last reports completion  *)
(***************************************************************************)
\* pollSyncStatus receives an answer with isComplete true
PollComplete == PollReturn /\ poll'.last = "complete"

\* the continuation of the suspended run: at each await exactly one of
\* these is enabled
RunStep ==
    \/ CreateSyncRunReturn
    \/ ScanReturn
    \/ CheckHashesReturn
    \/ UBRequestReturn
    \/ UBDialogReturn
    \/ \E k \in 1..MaxQueue : TransferResolve(k)
    \/ UBBatchSettled
    \/ UBConfirmReturn
    \/ S3UploadReturned
    \/ PollComplete
    \/ LegacyBatchReturn
    \/ DeleteBatchReturn
    \/ CompleteReturn
    \/ FailReportReturn

RunFairness == WF_vars(RunStep)

SpecLive == Init /\ [][Next]_vars /\ RunFairness


(***************************************************************************)
(* Folder management while the engine runs: the add-folder and             *)
(* delete-folder IPC handlers are served between the awaits of a run       *)
(***************************************************************************)
\* ScannedFile.folderConfigId of a file found under the watched folder,
\* copied into its FileRecord by every upsert of the engine
folderConfigIdOf(p) == FolderId

\* ipcMain.handle('delete-folder'): DatabaseManager.deleteFolderConfig
DeleteFolderIpc(id) ==
    /\ folderConfigs' = folderConfigs \ {id}
    /\ files' = [p \in Paths |->
                    IF folderConfigIdOf(p) = id THEN NoRecord ELSE files[p]]
    /\ UNCHANGED <<flow, config, disk, resume, scanner, data, sched, isRunning,
                   currentSyncRunId, syncStatus, activeRuns, pc, run, poll, calls,
                   completeSent, confirmSent, deleteSent, deleteReply, result>>

\* ipcMain.handle('add-folder'): DatabaseManager.addFolderConfig; with no
\* folder left the new one gets id 1 again
AddFolderIpc ==
    /\ folderConfigs = {}
    /\ folderConfigs' = {FolderId}
    /\ UNCHANGED <<flow, config, disk, resume, scanner, data, sched, files, isRunning,
                   currentSyncRunId, syncStatus, activeRuns, pc, run, poll, calls,
                   completeSent, confirmSent, deleteSent, deleteReply, result>>

NextFolders ==
    \/ NextScenario
    \/ \E id \in {FolderId} : DeleteFolderIpc(id)
    \/ AddFolderIpc

SpecFolders == InitScenario /\ [][NextFolders]_vars

(***************************************************************************)
(* SyncScheduler: start, stop, restart, setSchedule, isRunning             *)
(***************************************************************************)
\* the stored ScheduleConfig; expr tells what the time or cronExpression
\* fields give: nothing, a cron expression node-cron accepts, or one it
\* rejects
ScheduleConfigs ==
    [enabled : BOOLEAN,
     frequency : {"hourly", "daily", "weekly", "manual", "custom"},
     expr : {"none", "valid", "invalid"}]

\* the switch of start(): the expression handed to cron.schedule, or
\* "return" when start() returns before it
cronExpression(schedule) ==
    CASE schedule.frequency = "hourly" -> "valid"
      [] schedule.frequency \in {"daily", "weekly"} ->
            IF schedule.expr = "none" THEN "valid" ELSE schedule.expr
      [] schedule.frequency = "manual" -> "return"
      [] OTHER -> IF schedule.expr = "none" THEN "return" ELSE schedule.expr

\* SyncScheduler.stop
stop(s) ==
    IF s.currentTask # 0
    THEN [s EXCEPT !.active = @ \ {s.currentTask}, !.currentTask = 0]
    ELSE s

\* SyncScheduler.start: cron.schedule throws on an expression it rejects,
\* and the catch block logs
start(s) ==
    IF s.schedule = NoSchedule \/ ~s.schedule.enabled THEN s
    ELSE IF cronExpression(s.schedule) \in {"return", "invalid"} THEN s
    ELSE [s EXCEPT !.currentTask = s.created + 1,
                   !.active = @ \cup {s.created + 1},
                   !.created = @ + 1]

\* SyncScheduler.restart
restart(s) == start(stop(s))

\* SyncScheduler.isRunning
schedulerIsRunning == sched.currentTask # 0

SchedUnchanged ==
    UNCHANGED <<flow, config, folderConfigs, disk, engineVars, resume, scanner, data>>

StartCall ==
    /\ sched.created < MaxTasks
    /\ sched' = [start(sched) EXCEPT !.last = "start"]
    /\ SchedUnchanged

StopCall ==
    /\ sched' = [stop(sched) EXCEPT !.last = "stop"]
    /\ SchedUnchanged

RestartCall ==
    /\ sched.created < MaxTasks
    /\ sched' = [restart(sched) EXCEPT !.last = "restart"]
    /\ SchedUnchanged

\* SyncScheduler.setSchedule: the configuration is stored, then restart()
SetScheduleCall(c) ==
    /\ sched.created < MaxTasks
    /\ sched' = [restart([sched EXCEPT !.schedule = c]) EXCEPT !.last = "setSchedule"]
    /\ SchedUnchanged

InitSched ==
    /\ flow = "s3"
    /\ config = [apiToken |-> TRUE, integrationId |-> TRUE]
    /\ folderConfigs = {FolderId}
    /\ files = [p \in Paths |-> NoRecord]
    /\ disk = [p \in Paths |-> 0]
    /\ Idle
    /\ resume = NoResume
    /\ scanner = NoScanner
    /\ data = NoData
    /\ \E c \in ScheduleConfigs \cup {NoSchedule} : sched = [NoSched EXCEPT !.schedule = c]

NextSched ==
    \/ StartCall
    \/ StopCall
    \/ RestartCall
    \/ \E c \in ScheduleConfigs : SetScheduleCall(c)

SpecSched == InitSched /\ [][NextSched]_vars

InitStore ==
    /\ flow = "s3"
    /\ config = [apiToken |-> TRUE, integrationId |-> TRUE]
    /\ folderConfigs = {FolderId}
    /\ files = [p \in Paths |-> NoRecord]
    /\ disk = [p \in Paths |-> 0]
    /\ Idle
    /\ resume = NoResume
    /\ scanner = NoScanner
    /\ data = NoData
    /\ sched = NoSched

NextStore ==
    \/ \E file \in FileInputs : upsertFile(file)
    \/ \E p \in Paths, s \in Statuses : updateFileStatus(p, s)
    \/ \E ps \in SUBSET Paths : deleteFilesByPathsCall(ps)
    \/ addFolderConfig
    \/ \E id \in 1..MaxFolderConfigId : deleteFolderConfig(id)

SpecStore == InitStore /\ [][NextStore]_vars

(***************************************************************************)
(* Properties                                                              *)
(***************************************************************************)
Rejected == [kind |-> "error", error |-> JsError("Sync already running")]

\* C1: at most one run is active at any moment; a start-sync call made while
\* isRunning is true is rejected with the error "Sync already running" and
\* leaves isRunning, currentSyncRunId, SyncStatus and the Gateway calls of
\* the active run unchanged; no step taken while a run is active issues a
\* createSyncRun.
C1_AtMostOneRun ==
    /\ [](activeRuns <= 1)
    /\ [][isRunning /\ StartSyncIpc =>
            /\ result' = Rejected
            /\ UNCHANGED <<isRunning, currentSyncRunId, syncStatus, activeRuns,
                           pc, run, calls>>]_vars
    /\ [][isRunning => calls'.createSyncRun = calls.createSyncRun]_vars

\* a call was rejected while the run it collided with is still active
C1_Witness ==
    /\ isRunning
    /\ activeRuns = 1
    /\ pc = "poll"
    /\ result = Rejected

C3_AsStated ==
    [][pc # "deleteBatch" /\ pc' = "deleteBatch" =>
          \A p \in Paths :
             (files'[p].status # "none" /\ files'[p].fileHash \in Range(deleteSent'[1]))
             => /\ files'[p].status = "synced"
                /\ run'.scannedFiles[p] = 0
                /\ disk[p] = 0]_vars

\* the tracking store and the answer of the Gateway in the three-file folder
ScenarioFiles == [p \in Paths |-> IF p = "b.txt" THEN SyncedRecord(2) ELSE NoRecord]

ScenarioStep ==
    /\ pc = "checkHashes"
    /\ pc' \in {"ub_request", "legacy_upload"}
    /\ files = ScenarioFiles
    /\ run.scannedFiles = [p \in Paths |-> IF p = "a.txt" THEN 1 ELSE 2]
    /\ run'.hashCheckResults = {2}

\* C4: in the three-file folder, Phase 2 ends with filesScanned = 3,
\* filesSkipped = 2 (b.txt and c.txt), filesUpdated = 0 and filesNew = 0;
\* a.txt alone is queued, as new; c.txt gets a synced record pointing at the
\* known document.  In every run, a scanned file whose hash is known
\* remotely is counted as updated only if its path has a tracked record
\* with another hash, and as skipped otherwise.
C4_Scenario ==
    /\ [][ScenarioStep =>
            /\ syncStatus'.filesScanned = 3
            /\ syncStatus'.filesSkipped = 2
            /\ syncStatus'.filesUpdated = 0
            /\ syncStatus'.filesNew = 0
            /\ run'.filesToUpload = <<[filePath |-> "a.txt", fileHash |-> 1,
                                       uploadType |-> "new"]>>
            /\ files'["a.txt"] = NoRecord
            /\ files'["b.txt"] = SyncedRecord(2)
            /\ files'["c.txt"] = SyncedRecord(2)]_vars
    /\ [][pc = "checkHashes" /\ run'.hashCheckResults # run.hashCheckResults =>
            LET sc == run.scannedFiles
                known == {p \in Paths : sc[p] # 0 /\ sc[p] \in run'.hashCheckResults}
                moved == {p \in known : files[p].status # "none" /\ files[p].fileHash # sc[p]}
            IN /\ syncStatus'.filesUpdated = Cardinality(moved)
               /\ syncStatus'.filesSkipped = Cardinality(known \ moved)
               /\ \A p \in known : files'[p] = SyncedRecord(sc[p])]_vars

C4_Witness ==
    /\ pc = "ub_request"
    /\ run.hashCheckResults = {2}
    /\ Len(run.filesToUpload) = 1
    /\ run.filesToUpload[1].filePath = "a.txt"
    /\ syncStatus.filesScanned = 3
    /\ syncStatus.filesSkipped = 2
    /\ files["c.txt"] = SyncedRecord(2)

\* C4 as stated: c.txt is counted as updated and b.txt as skipped
C4_AsStated ==
    [][ScenarioStep =>
          /\ syncStatus'.filesScanned = 3
          /\ syncStatus'.filesSkipped = 1
          /\ syncStatus'.filesUpdated = 1]_vars

\* C5: when Phase 2 ends, every scanned file has taken exactly one of the
\* branches queued / updated-pointer / skipped: filesUpdated + filesSkipped
\* + the length of the upload queue = filesScanned; and a run with an empty
\* queue reports completion with filesNew + filesUpdated + filesSkipped =
\* filesScanned.
C5_ReconcileComplete ==
    /\ [][pc = "checkHashes" /\ pc' \in {"ub_request", "legacy_upload", "deleteBatch", "complete"} =>
            /\ syncStatus'.filesUpdated + syncStatus'.filesSkipped
                  + Len(run'.filesToUpload) = syncStatus'.filesScanned
            /\ \A p \in Paths :
                  run.scannedFiles[p] # 0 =>
                     LET queued == \E k \in 1..Len(run'.filesToUpload) :
                                      run'.filesToUpload[k].filePath = p
                     IN /\ queued <=> run.scannedFiles[p] \notin run'.hashCheckResults
                        /\ queued => files'[p] = files[p]
                        /\ ~queued => files'[p] = SyncedRecord(run.scannedFiles[p])]_vars
    /\ [](pc = "complete" /\ Len(run.filesToUpload) = 0 =>
            syncStatus.filesNew + syncStatus.filesUpdated + syncStatus.filesSkipped
               = syncStatus.filesScanned)

\* a run with one updated-pointer file, one skipped file and an empty queue
C5_Witness ==
    /\ pc = "complete"
    /\ Len(run.filesToUpload) = 0
    /\ syncStatus.filesUpdated = 1
    /\ syncStatus.filesSkipped = 1
    /\ syncStatus.filesScanned = 2

\* C5 as stated: at the end of every run that reaches Finalize the counters
\* satisfy filesNew + filesUpdated + filesSkipped = filesScanned minus the
\* files still pending (whether or not the pending files are subtracted)
C5_AsStated ==
    (pc = "idle" /\ result.kind = "ok") =>
        LET sum == syncStatus.filesNew + syncStatus.filesUpdated + syncStatus.filesSkipped
            pending == Cardinality(getFilesByStatus(files, "pending"))
        IN /\ sum <= syncStatus.filesScanned
           /\ sum >= syncStatus.filesScanned - pending

\* C6: uploadBatch sends at most one confirmUploads call, and only after
\* every granted transfer was started and has settled; the call lists as
\* uploaded exactly the hashes whose transfer succeeded and as failed exactly
\* those whose transfer failed, each granted hash once.  A call that returns
\* normally has sent the confirmation if and only if at least one upload was
\* granted: with no grant it returns without calling confirmUploads.
C6_OneConfirmation ==
    LET u == run.ub
        granted == 1..Len(u.uploads)
    IN /\ Len(confirmSent) <= 1
       /\ calls.confirmUploads = Len(confirmSent)
       /\ confirmSent # <<>> =>
             LET c == confirmSent[1]
             IN /\ \A k \in granted : u.xfer[k] \in {"ok", "fail"}
                /\ calls.s3Put = Len(u.uploads)
                /\ Range(c.uploadedFiles) = {u.uploads[k] : k \in {j \in granted : u.xfer[j] = "ok"}}
                /\ Range(c.failedFiles) = {u.uploads[k] : k \in {j \in granted : u.xfer[j] = "fail"}}
                /\ Len(c.uploadedFiles) + Len(c.failedFiles) = Len(u.uploads)
                /\ Range(c.uploadedFiles) \cap Range(c.failedFiles) = {}
       /\ (pc = "ub_returned" /\ u.returned = "ok") =>
             (Len(confirmSent) = 1 <=> Len(u.uploads) > 0)

\* one transfer of the first batch failed; the second batch was still
\* transferred and everything else is confirmed as uploaded
C6_Witness ==
    /\ pc = "ub_returned"
    /\ Len(confirmSent) = 1
    /\ Len(confirmSent[1].failedFiles) = 1
    /\ Len(confirmSent[1].uploadedFiles) > UPLOAD_CONCURRENCY
    /\ run.ub.xfer[1] = "fail"

\* C6 as stated: every uploadBatch call that returns has sent exactly one
\* confirmUploads call
C6_AsStated ==
    (pc = "ub_returned" /\ run.ub.returned = "ok") => Len(confirmSent) = 1

\* C7: a run in which some uploads failed and others succeeded is not failed
\* by them: no step from the upload phase to the delete phase enters the
\* failure report.  The legacy build then reports the run with
\* completeSyncRun status partial; the S3 build sends no completeSyncRun at
\* all for a run that queued files.
C7_PartialFailure ==
    /\ [][(pc \in {"ub_returned", "poll", "legacy_upload", "deleteBatch"}) =>
             ~(pc' = "failReport")]_vars
    /\ [](flow = "legacy" /\ pc = "complete" /\ syncStatus.filesFailed > 0 =>
             /\ Len(completeSent) = 1
             /\ completeSent[1].status = "partial"
             /\ completeSent[1].stats.filesFailed = syncStatus.filesFailed)
    /\ [](flow = "s3" /\ calls.requestBatchUpload > 0 => completeSent = <<>>)

\* the legacy build reports a run with one uploaded and one failed file
C7_Witness ==
    /\ flow = "legacy"
    /\ pc = "complete"
    /\ syncStatus.filesFailed = 1
    /\ syncStatus.filesNew = 1
    /\ completeSent[1].status = "partial"

\* C7 as stated: a finished run with failed and succeeded uploads has
\* reported the terminal status partial
C7_AsStated ==
    (/\ pc = "idle"
     /\ result.kind = "ok"
     /\ syncStatus.filesFailed > 0
     /\ syncStatus.filesNew + syncStatus.filesUpdated > 0)
    => /\ completeSent # <<>>
       /\ completeSent[Len(completeSent)].status = "partial"

\* the batch a granted upload belongs to
BatchIndex(k) == (k - 1) \div UPLOAD_CONCURRENCY

\* C8: at most UPLOAD_CONCURRENCY transfers are in flight, and a transfer
\* has started only if every transfer of the earlier batches has settled.
C8_BoundedConcurrency ==
    LET xfer == run.ub.xfer
    IN /\ Cardinality({k \in 1..Len(xfer) : xfer[k] = "inflight"}) <= UPLOAD_CONCURRENCY
       /\ \A j, k \in 1..Len(xfer) :
             (xfer[k] # "waiting" /\ BatchIndex(j) < BatchIndex(k))
                => xfer[j] \in {"ok", "fail"}

\* the second batch is in flight while more than UPLOAD_CONCURRENCY uploads
\* were granted
C8_Witness ==
    /\ pc = "ub_transfer"
    /\ Len(run.ub.uploads) > UPLOAD_CONCURRENCY
    /\ run.ub.i = UPLOAD_CONCURRENCY
    /\ run.ub.xfer[Len(run.ub.uploads)] = "inflight"

\* C9: pollSyncStatus resolves only on an answer with isComplete true; after
\* an answer that is not complete, or a failed call, the engine keeps
\* polling (one more getSyncStatus call), and no step of the poll fails the
\* run.
C9_PollUntilComplete ==
    /\ [][pc = "poll" /\ pc' # "poll" => poll'.last = "complete"]_vars
    /\ [][pc = "poll" /\ poll' # poll /\ poll'.last \in {"error", "incomplete"} =>
             /\ pc' = "poll"
             /\ isRunning'
             /\ calls'.getSyncStatus = calls.getSyncStatus + 1]_vars
    /\ [][pc = "poll" => /\ ~(pc' = "failReport")
                          /\ (pc' = "idle" => result'.kind = "ok")]_vars

\* a run that finished after polls that failed or were not complete
C9_Witness ==
    /\ pc = "idle"
    /\ result.kind = "ok"
    /\ poll.last = "complete"
    /\ poll.count = 2
    /\ calls.getSyncStatus = 3

\* C10 as stated: within a run progress never decreases and stays in 0..100
C10_AsStated ==
    /\ [](syncStatus.progress \in 0..100)
    /\ [][isRunning /\ isRunning' => syncStatus'.progress >= syncStatus.progress]_vars

\* C11 (as stated): every SyncRun a finished performSync has created got a
\* terminal status: the engine sent a completion report for it, or it
\* handed the run to the remote pipeline with a confirmation.
C11_AsStated ==
    (pc = "idle" /\ result.kind \in {"ok", "error"} /\ calls.checkHashes > 0)
        => (completeSent # <<>> \/ confirmSent # <<>>)

\* C12: whenever performSync has settled (with an error or successfully) the
\* guard is off and the run id is cleared, in the engine and in SyncStatus;
\* the error that reached the catch block is the one the invoker gets, and
\* start-sync replies {success: false, error} with its text.
C12_ResetAndRethrow ==
    /\ [](pc = "idle" => /\ ~isRunning
                         /\ currentSyncRunId = 0
                         /\ ~syncStatus.isRunning
                         /\ syncStatus.currentSyncRunId = 0)
    /\ []((result.kind = "error") =>
              IpcReply = [success |-> FALSE, error |-> ErrorString(result.error)])
    /\ [][(pc = "failReport" /\ pc' # pc) =>
              /\ pc' = "idle"
              /\ result' = [kind |-> "error", error |-> run.error]]_vars
    /\ [][(pc # "idle" /\ pc' = "idle") => result'.kind \in {"ok", "error"}]_vars

\* a run that failed after the SyncRun was created has settled: the error
\* was reported once and re-raised, the engine is idle again
C12_Witness ==
    /\ pc = "idle"
    /\ result = [kind |-> "error", error |-> GatewayError]
    /\ Len(completeSent) = 1
    /\ completeSent[1].status = "failed"
    /\ calls.checkHashes = 1
    /\ ~isRunning
    /\ IpcReply.success = FALSE

\* C13: with the API token or the integration id missing, performSync fails
\* without a single Gateway call: no createSyncRun, checkHashes, upload,
\* delete or completion call is ever counted or sent.
C13_ConfigErrorsFirst ==
    (~config.apiToken \/ ~config.integrationId) =>
        /\ calls = NoCalls
        /\ completeSent = <<>>
        /\ confirmSent = <<>>
        /\ deleteSent = <<>>
        /\ pc = "idle"
        /\ result.kind \in {"none", "error"}

\* performSync was called with the token present and the integration id
\* missing, and failed
C13_Witness ==
    /\ config.apiToken
    /\ ~config.integrationId
    /\ result = [kind |-> "error", error |-> JsError("Integration ID not configured")]
    /\ calls = NoCalls

\* C14 (as stated): when checkAndResumeIncompleteSync has found an
\* incomplete run and the operator confirmed, the resume call that
\* re-requests the transfer grants of that run has been made.
C14_AsStated ==
    (resume.pc = "done" /\ resume.incompleteSync.found /\ resume.returned = "true")
        => resume.resumeSync >= 1

\* C15 (as stated): within a run filesFailed never decreases.
C15_AsStated ==
    [][isRunning => syncStatus'.filesFailed >= syncStatus.filesFailed]_vars

\* C16 (as stated): after a scan with a non-empty extension filter, a file
\* the other two filters let through is in the result iff its extension
\* equals a configured one when both are compared in lower case; with a
\* null or empty filter every such file is in the result.
C16_AsStated ==
    (scanner.i = Len(scanner.entries) /\ scanner.vanished = {}) =>
        \A k \in 1..Len(scanner.entries) :
            LET name == scanner.entries[k]
                cfg == scanner.config
                items == cfg.fileExtensions.items
            IN (/\ ~isDirectory(name)
                /\ ~(cfg.ignoreHidden /\ startsWithDot(name))
                /\ ~(cfg.maxFileSizeMb # 0 /\ fileSizeMb(name) > cfg.maxFileSizeMb))
               => ((name \in Range(scanner.files)) <=>
                      (\/ cfg.fileExtensions.null
                       \/ items = {}
                       \/ \E f \in items : toLowerCase(f) = toLowerCase(extname(name))))

\* C17: in Phase 2 every scanned file takes exactly one branch.  (a) Its
\* hash is not reported as existing: it is queued once, tagged 'new' when
\* its path has no FileRecord and 'updated' otherwise, and its record is not
\* touched.  (b) Its hash exists remotely and the FileRecord of its path
\* stores a different hash: it is not queued, the record becomes synced with
\* the returned documentId, filesUpdated counts it.  (c) Its hash exists
\* remotely and nothing differs from the local record (same hash, or no
\* record to differ from): it is not queued, the record is written as
\* synced, filesSkipped counts it.  Files that were not scanned are neither
\* queued nor written.
C17_ReconcileBranches ==
    [][(pc = "checkHashes" /\ pc' \in {"ub_request", "legacy_upload", "deleteBatch", "complete"}) =>
          LET known(p) == run.scannedFiles[p] \in run'.hashCheckResults
              differs(p) == files[p].status # "none"
                               /\ files[p].fileHash # run.scannedFiles[p]
              entries(p) == {k \in 1..Len(run'.filesToUpload) :
                                run'.filesToUpload[k].filePath = p}
              scanned == {p \in Paths : run.scannedFiles[p] # 0}
          IN /\ \A p \in Paths \ scanned : entries(p) = {} /\ files'[p] = files[p]
             /\ \A p \in scanned :
                   IF ~known(p)
                   THEN /\ Cardinality(entries(p)) = 1
                        /\ \A k \in entries(p) :
                              /\ run'.filesToUpload[k].fileHash = run.scannedFiles[p]
                              /\ run'.filesToUpload[k].uploadType =
                                    IF files[p].status = "none" THEN "new" ELSE "updated"
                        /\ files'[p] = files[p]
                   ELSE /\ entries(p) = {}
                        /\ files'[p] = [status |-> "synced",
                                        fileHash |-> run.scannedFiles[p],
                                        documentId |-> DocumentOf(run.scannedFiles[p]),
                                        errorMessage |-> ""]
             /\ syncStatus'.filesUpdated = syncStatus.filesUpdated
                   + Cardinality({p \in scanned : known(p) /\ differs(p)})
             /\ syncStatus'.filesSkipped = syncStatus.filesSkipped
                   + Cardinality({p \in scanned : known(p) /\ ~differs(p)})]_vars

\* Phase 2 has queued a tracked file as 'updated' and skipped another file
C17_Witness ==
    /\ pc \in {"ub_request", "legacy_upload"}
    /\ \E k \in 1..Len(run.filesToUpload) : run.filesToUpload[k].uploadType = "updated"
    /\ syncStatus.filesSkipped = 1
    /\ run.hashCheckResults # {}

\* C18: the phases of a run are strictly ordered.  checkHashes is called by
\* the step in which the scan returns, and not before; the grant request
\* (S3 build) or the first uploadBatch (legacy build) is issued by the step
\* in which the reconcile loop ends, and no transfer starts before it;
\* deleteBatch is called only once the upload phase has resolved (no
\* transfer in flight, the confirmation returned, the poll resolved with a
\* complete answer); the completion report of the try block is sent only
\* after the delete phase: every deleteBatch call has returned and none
\* follows.
C18_PhaseOrder ==
    /\ [][(calls'.checkHashes > calls.checkHashes) =>
              pc = "scan" /\ calls.checkHashes = 0]_vars
    /\ [][(\/ calls'.requestBatchUpload > calls.requestBatchUpload
           \/ (calls'.uploadBatch > calls.uploadBatch /\ calls.uploadBatch = 0)) =>
              pc = "checkHashes" /\ run'.filesToUpload # <<>>]_vars
    /\ []((calls.requestBatchUpload + calls.s3Put + calls.uploadBatch
              + calls.confirmUploads + calls.getSyncStatus > 0) =>
              calls.checkHashes = 1 /\ pc \notin {"createSyncRun", "scan", "checkHashes"})
    /\ [][(calls'.deleteBatch > calls.deleteBatch) =>
              /\ pc \in {"checkHashes", "ub_returned", "poll", "legacy_upload"}
              /\ calls.deleteBatch = 0
              /\ InFlight(run.ub) = {}
              /\ run.ub.returned # "no" \/ run'.filesToUpload = <<>> \/ flow = "legacy"
              /\ pc = "poll" => poll'.last = "complete"
              /\ pc = "legacy_upload" =>
                    run.i + LegacyBatchSize >= Len(run.filesToUpload)
              /\ completeSent = <<>>]_vars
    /\ [](pc = "deleteBatch" =>
              /\ completeSent = <<>>
              /\ calls.getSyncStatus > 0 => poll.last = "complete")
    /\ [][(Len(completeSent') > Len(completeSent)
              /\ completeSent'[Len(completeSent')].status # "failed") =>
              /\ pc' = "complete"
              /\ pc \in {"checkHashes", "poll", "legacy_upload", "ub_returned",
                         "deleteBatch"}
              /\ calls.deleteBatch > 0 => pc = "deleteBatch"]_vars
    /\ [](pc = "complete" => (calls.deleteBatch > 0 => deleteReply.kind # "none"))

\* a run of the S3 build that went through every phase: scan, reconcile,
\* grant request, transfer, confirmation, poll, delete
C18_Witness ==
    /\ pc = "deleteBatch"
    /\ calls.checkHashes = 1
    /\ calls.requestBatchUpload = 1
    /\ calls.s3Put > 0
    /\ calls.confirmUploads = 1
    /\ calls.getSyncStatus > 0
    /\ calls.deleteBatch = 1
    /\ poll.last = "complete"

\* C19 (as stated): a FileRecord is removed only by the step in which a
\* deleteBatch call returned successfully with every requested hash
\* confirmed deleted (no error entry in the reply), and only if its hash was
\* in the request; a run sends at most one deleteBatch request.
C19_AsStated ==
    /\ [][\A p \in Paths :
             (files[p].status # "none" /\ files'[p].status = "none") =>
                 /\ pc = "deleteBatch"
                 /\ deleteReply'.kind = "ok"
                 /\ deleteReply'.errors = 0
                 /\ files[p].fileHash \in Range(run.filesToDelete)]_vars
    /\ [](Len(deleteSent) <= 1)

\* C20: when the deleteBatch call fails, that step removes no FileRecord,
\* sends no 'failed' report and goes on to Finalize: the completion report
\* is sent (or, in the S3 build with a non-empty queue, performSync returns
\* successfully at once); performSync then returns successfully when the
\* completion call returns, and a 'failed' report after a failed delete is
\* only ever the answer to a completion call that itself failed.
C20_DeleteFailureTolerated ==
    /\ [][(pc = "deleteBatch" /\ deleteReply'.kind = "error") =>
              /\ files' = files
              /\ pc' \in {"complete", "idle"}
              /\ pc' = "idle" => result'.kind = "ok"
              /\ pc' = "complete" =>
                    /\ Len(completeSent') = 1
                    /\ completeSent'[1].status \in {"completed", "partial"}
              /\ \A k \in 1..Len(completeSent') : completeSent'[k].status # "failed"]_vars
    /\ [][(deleteReply.kind = "error" /\ pc # "failReport" /\ pc' = "failReport") =>
              pc = "complete"]_vars
    /\ []((deleteReply.kind = "error" /\ pc = "idle" /\ result.kind = "error"
              /\ calls.deleteBatch > 0) =>
              /\ Len(completeSent) = 2
              /\ completeSent[1].status # "failed")

\* a run whose deleteBatch call failed has returned successfully, and the
\* record of the vanished file is still in the store
C20_Witness ==
    /\ deleteReply.kind = "error"
    /\ pc = "idle"
    /\ result.kind = "ok"
    /\ Len(completeSent) = 1
    /\ completeSent[1].status = "completed"
    /\ \E p \in Paths : files[p].status = "synced" /\ disk[p] = 0

\* C21 (as stated): when uploadBatch has returned, every queued file whose
\* hash is in the uploaded list has a pending FileRecord without documentId
\* and its size is added to bytesProcessed; every queued file whose hash is
\* in the failed list has a failed FileRecord carrying the transfer error
\* and an entry in the error-detail list; the engine goes on to the poll.
C21_AsStated ==
    [][(pc = "ub_returned" /\ run.ub.returned = "ok" /\ pc' # pc) =>
          LET q == run.filesToUpload
              up == Range(run.ub.uploaded)
              ko == Range(run.ub.failed)
          IN /\ pc' = "poll"
             /\ \A k \in 1..Len(q) :
                   /\ (q[k].fileHash \in up \ ko) =>
                         files'[q[k].filePath] = PendingRecord(q[k].fileHash)
                   /\ (q[k].fileHash \in ko) =>
                         /\ files'[q[k].filePath] = FailedRecord(q[k].fileHash, TransferError)
                         /\ \E j \in 1..Len(run'.failedFilesDetails) :
                               run'.failedFilesDetails[j] =
                                   [filePath |-> q[k].filePath, error |-> TransferError]
             /\ syncStatus'.bytesProcessed = syncStatus.bytesProcessed
                   + SeqSum([k \in 1..Len(q) |->
                                IF q[k].fileHash \in up
                                THEN FileSizeOf(q[k].filePath) ELSE 0])]_vars

\* C22 (as stated): a run with an empty upload queue sends, before it
\* returns, one completeSyncRun with status completed whose counters are
\* the SyncStatus counters of that moment, pointer updates included in
\* filesUpdated.
C22_AsStated ==
    /\ [](pc = "complete" /\ Len(run.filesToUpload) = 0 =>
             /\ Len(completeSent) = 1
             /\ completeSent[1].status = "completed"
             /\ completeSent[1].stats = StatsOf(syncStatus))
    /\ [][(pc' = "idle" /\ pc # "idle" /\ result'.kind = "ok"
              /\ Len(run.filesToUpload) = 0) => pc = "complete"]_vars

\* C23: an exception raised once the SyncRun exists is answered with one
\* completeSyncRun call of status failed that carries the SyncStatus
\* counters and the text of the error; performSync ends with an error only
\* through that report (or because createSyncRun itself failed); whether
\* the report returns or fails, the caller gets the original error and the
\* guard is reset.
C23_FailureReport ==
    /\ [][(pc # "failReport" /\ pc' = "failReport") =>
              /\ currentSyncRunId' # 0
              /\ completeSent' = Append(completeSent,
                                        [status |-> "failed",
                                         stats |-> StatsOf(syncStatus'),
                                         errorMessage |-> ErrorString(run'.error)])
              /\ run'.error # NoError
              /\ calls'.completeSyncRun = calls.completeSyncRun + 1]_vars
    /\ [](Cardinality({k \in 1..Len(completeSent) : completeSent[k].status = "failed"}) <= 1)
    /\ [][(pc \notin {"idle", "failReport"} /\ pc' = "idle" /\ result'.kind = "error") =>
              pc = "createSyncRun" /\ currentSyncRunId = 0]_vars
    /\ [][(pc = "failReport" /\ pc' # pc) =>
              /\ result' = [kind |-> "error", error |-> run.error]
              /\ ~isRunning'
              /\ currentSyncRunId' = 0
              /\ completeSent' = completeSent]_vars

\* checkHashes failed after a scan that found files: the failure report is
\* on its way with the counters and the error text
C23_Witness ==
    /\ pc = "failReport"
    /\ calls.checkHashes = 1
    /\ Len(completeSent) = 1
    /\ completeSent[1].status = "failed"
    /\ completeSent[1].stats.filesScanned > 0
    /\ completeSent[1].errorMessage = ErrorString(GatewayError)

\* C24: the hashes the grant response lists as skipped are the skipped
\* list of the result and none of them is transferred; transfers are
\* started only for entries of the grants list, each hash granted once;
\* a transfer that has settled, succeeded or failed, is never started
\* again, so the number of transfers started never exceeds the number of
\* grants.
C24_GrantsOnly ==
    /\ [](LET u == run.ub
          IN /\ u.skipped \cap Range(u.uploads) = {}
             /\ Range(u.uploads) \subseteq Range(u.files)
             /\ Len(u.xfer) = Len(u.uploads)
             /\ \A j, k \in 1..Len(u.uploads) : j # k => u.uploads[j] # u.uploads[k]
             /\ calls.s3Put = Cardinality({k \in 1..Len(u.xfer) : u.xfer[k] # "waiting"})
             /\ Range(u.uploaded) \cup Range(u.failed) \subseteq Range(u.uploads)
             /\ (pc = "ub_returned" /\ u.returned = "ok") =>
                   /\ u.skipped = Range(u.files) \ Range(u.uploads)
                   /\ calls.s3Put = Len(u.uploads))
    /\ [][\A k \in 1..Len(run.ub.xfer) :
             (run.ub.xfer[k] \in {"ok", "fail"}) => run'.ub.xfer[k] = run.ub.xfer[k]]_vars

\* uploadBatch returned: some hashes were skipped, a transfer in the second
\* batch failed, every grant was used once
C24_Witness ==
    /\ pc = "ub_returned"
    /\ run.ub.returned = "ok"
    /\ run.ub.skipped # {}
    /\ Len(run.ub.uploads) > UPLOAD_CONCURRENCY
    /\ run.ub.xfer[Len(run.ub.uploads)] = "fail"
    /\ calls.s3Put = Len(run.ub.uploads)

\* C25: when the grant response requires confirmation and the operator
\* declines, uploadBatch throws 'Upload cancelled by user' with no transfer
\* started and no confirmUploads sent; when the operator accepts, or no
\* confirmation was required, the first batch of transfers is started as
\* soon as there is a grant.
C25_LargeBatchGuard ==
    /\ [](run.ub.confirmed = "no" =>
             /\ pc = "ub_returned"
             /\ run.ub.returned = "threw"
             /\ run.ub.error = JsError("Upload cancelled by user")
             /\ calls.s3Put = 0
             /\ \A k \in 1..Len(run.ub.xfer) : run.ub.xfer[k] = "waiting"
             /\ calls.confirmUploads = 0
             /\ confirmSent = <<>>)
    /\ [](run.ub.confirmed = "asked" => pc = "ub_dialog" /\ calls.s3Put = 0)
    /\ []((run.ub.confirmed \in {"yes", "none"} /\ Len(run.ub.uploads) > 0) =>
             /\ pc \in {"ub_transfer", "ub_confirm", "ub_returned"}
             /\ calls.s3Put >= Min(UPLOAD_CONCURRENCY, Len(run.ub.uploads)))
    /\ [][(pc = "ub_dialog" /\ pc' # pc) =>
             \/ run'.ub.confirmed = "no"
             \/ /\ run'.ub.confirmed = "yes"
                /\ IF Len(run.ub.uploads) > 0
                   THEN pc' = "ub_transfer" /\ InFlight(run'.ub) = BatchOf(run.ub, 0)
                   ELSE pc' = "ub_returned" /\ run'.ub.returned = "ok"]_vars

\* the operator declined the confirmation of a request that had grants
C25_Witness ==
    /\ pc = "ub_returned"
    /\ run.ub.confirmed = "no"
    /\ Len(run.ub.uploads) > 0
    /\ run.ub.error = JsError("Upload cancelled by user")
    /\ calls.s3Put = 0

\* C26 (as stated): when the scan has ended, every file that passes the
\* filters and was not itself hit by an I/O error is in the result: the
\* files of the top directory, and those of the subdirectory when
\* subfolders are included and the subdirectory was visited and readable.
C26_AsStated ==
    scanner.i = Len(scanner.entries) =>
        LET cfg == scanner.config
            top == {scanner.entries[k] : k \in 1..Len(scanner.entries)}
            inSub == {scanner.sub.entries[k] : k \in 1..Len(scanner.sub.entries)}
            subVisited == /\ "docs" \in top
                          /\ cfg.includeSubfolders
                          /\ scanner.sub.readable
        IN /\ \A name \in top :
                 (~isDirectory(name) /\ Accepts(cfg, name)
                     /\ name \notin scanner.vanished)
                 => name \in Range(scanner.files)
           /\ \A name \in inSub :
                 (subVisited /\ Accepts(cfg, name) /\ name \notin scanner.vanished)
                 => name \in Range(scanner.files)


\* C27 (as stated): the status of a tracked file's record changes only from
\* pending to synced or from pending to failed, and a synced record is
\* removed only when the file is absent from disk and the Gateway has
\* answered the deleteBatch request; no other change of status happens to
\* an existing record.
C27_AsStated ==
    [][\A p \in Paths :
          (files[p].status # "none" /\ files'[p].status # files[p].status)
          => \/ /\ files[p].status = "pending"
                /\ files'[p].status \in {"synced", "failed"}
             \/ /\ files[p].status = "synced"
                /\ files'[p].status = "none"
                /\ disk[p] = 0
                /\ deleteReply'.kind = "ok"]_vars


\* C28: in every state of the tracking store no two FileRecords have the
\* same filePath and no two have the same id, whatever upsertFile,
\* updateFileStatus, deleteFilesByPaths and deleteFolderConfig calls were made.
C28_PathAndIdUnique ==
    \A i, j \in 1..Len(data.files) :
        i # j => /\ data.files[i].filePath # data.files[j].filePath
                 /\ data.files[i].id # data.files[j].id

\* two records are tracked after an earlier one was deleted (ids 2 and 3 are
\* in use, 1 is not), and the first was upserted again or had its status
\* updated
C28_Witness ==
    /\ Len(data.files) = 2
    /\ data.files[1].id = 2
    /\ data.files[2].id = 3
    /\ data.files[1].status = "failed"
    /\ data.files[2].status = "synced"


\* C29: SyncStatus is reset at the start of every run: in the state that
\* follows a passed entry guard, filesScanned, filesNew, filesUpdated,
\* filesDeleted, filesFailed, filesSkipped, filesCompleted, bytesProcessed
\* and progress are 0 and SyncStatus.currentSyncRunId is null, whatever the
\* previous run left.
C29_StatusReset ==
    [][(/\ pc = "idle"
        /\ \/ pc' = "createSyncRun"
           \/ /\ result' # result
              /\ result'.error = JsError("Integration ID not configured"))
       => /\ syncStatus'.filesScanned = 0
          /\ syncStatus'.filesNew = 0
          /\ syncStatus'.filesUpdated = 0
          /\ syncStatus'.filesDeleted = 0
          /\ syncStatus'.filesFailed = 0
          /\ syncStatus'.filesSkipped = 0
          /\ syncStatus'.filesCompleted = 0
          /\ syncStatus'.bytesProcessed = 0
          /\ syncStatus'.progress = 0
          /\ syncStatus'.currentSyncRunId = 0]_vars

\* a run has started after an earlier run tracked files, which left
\* non-zero counters behind
C29_Witness ==
    /\ pc = "createSyncRun"
    /\ \E p \in Paths : files[p].status # "none"
    /\ syncStatus = ResetStatus


\* C30 (as stated): the delete phase never removes the record of a file
\* that is still on disk and was found by this run's scan, in particular
\* the record of a surviving path that shares its content hash with a
\* locally deleted one.
C30_AsStated ==
    [][(pc = "deleteBatch" /\ pc' # pc)
       => \A p \in Paths :
             (files[p].status # "none" /\ run.scannedFiles[p] # 0 /\ disk[p] # 0)
             => files'[p].status # "none"]_vars


\* C31 (as stated): the poll of the run's status starts only after a
\* confirmUploads request of this run has been sent; with a grant response
\* holding no uploads nothing is confirmed and the poll is not entered.
C31_AsStated ==
    [][(pc # "poll" /\ pc' = "poll")
       => /\ Len(confirmSent') > 0
          /\ Len(run.ub.uploads) > 0]_vars


C33_AsStated ==
    [][(/\ pc = "ub_returned"
        /\ run.ub.returned = "ok"
        /\ pc' # pc
        /\ \E j, k \in 1..Len(run.filesToUpload) :
              /\ j # k
              /\ run.filesToUpload[j].fileHash = run.filesToUpload[k].fileHash)
       => LET q == run.filesToUpload
              up == Range(run.ub.uploaded)
              ko == Range(run.ub.failed)
          IN /\ \A k \in 1..Len(q) :
                   /\ (q[k].fileHash \in up) => files'[q[k].filePath].status = "pending"
                   /\ (q[k].fileHash \in ko) => files'[q[k].filePath].status = "failed"
             /\ syncStatus'.filesFailed = syncStatus.filesFailed
                   + Cardinality({k \in 1..Len(q) : q[k].fileHash \in ko})]_vars


\* C34 (as stated): when the delete phase ends, filesDeleted is the number
\* of FileRecords the phase removed; it is 0 when the deleteBatch call
\* failed.
C34_AsStated ==
    [][(pc = "deleteBatch" /\ pc' # pc)
       => /\ syncStatus'.filesDeleted =
                Cardinality({p \in Paths : files[p].status # "none"
                                           /\ files'[p].status = "none"})
          /\ (deleteReply'.kind = "error" => syncStatus'.filesDeleted = 0)]_vars


\* C35 (as stated): when performSync returns from a run whose queued files
\* were all uploaded and whose poll ended with the remote reporting all of
\* them completed, none of their FileRecords is still pending.
C35_AsStated ==
    [][(/\ pc # "idle"
        /\ pc' = "idle"
        /\ flow = "s3"
        /\ poll.last = "complete"
        /\ Len(run.filesToUpload) > 0
        /\ \A k \in 1..Len(run.filesToUpload) :
              run.filesToUpload[k].fileHash \in Range(run.ub.uploaded)
        /\ syncStatus.filesCompleted = Len(run.filesToUpload))
       => \A k \in 1..Len(run.filesToUpload) :
             files'[run.filesToUpload[k].filePath].status \in {"synced", "failed"}]_vars


\* C36 (as stated): when a run reaches the delete phase, every tracked
\* file that is neither in the scan nor on disk has its hash in the
\* deleteBatch request of that run, whether its record is synced, pending
\* or failed.
C36_AsStated ==
    [][(/\ pc \in {"checkHashes", "ub_returned", "poll", "legacy_upload"}
        /\ pc' \in {"deleteBatch", "complete", "idle"}
        /\ result'.kind # "error")
       => \A p \in Paths :
             (files'[p].status # "none" /\ run.scannedFiles[p] = 0 /\ disk[p] = 0)
             => /\ pc' = "deleteBatch"
                /\ files'[p].fileHash \in Range(deleteSent'[Len(deleteSent')])]_vars


\* C37 (as stated): in every state the folderConfigId of every FileRecord
\* is the id of an existing FolderConfig, also when delete-folder is
\* handled while a run is suspended at a call.
C37_AsStated ==
    \A p \in Paths :
        files[p].status # "none" => folderConfigIdOf(p) \in folderConfigs


\* C38: in every state SyncStatus.isRunning equals the engine's isRunning,
\* SyncStatus.currentSyncRunId equals the engine's currentSyncRunId, and
\* the run id is set only while isRunning is true.
C38_StatusMirrorsEngine ==
    /\ syncStatus.isRunning = isRunning
    /\ syncStatus.currentSyncRunId = currentSyncRunId
    /\ (currentSyncRunId # 0 => isRunning)

\* a later run holds its run id after an earlier run, which tracked files,
\* had set and cleared its own
C38_Witness ==
    /\ pc = "scan"
    /\ isRunning
    /\ currentSyncRunId = NewRunId
    /\ syncStatus.currentSyncRunId = NewRunId
    /\ \E p \in Paths : files[p].status # "none"


\* C39 (as stated): after any sequence of start, stop, restart and
\* setSchedule calls at most one cron task is active, isRunning() is true
\* exactly when a task is active, and after a restart under a disabled or
\* manual schedule no task is active.
C39_AsStated ==
    /\ Cardinality(sched.active) <= 1
    /\ schedulerIsRunning <=> (sched.active # {})
    /\ (/\ sched.last \in {"restart", "setSchedule"}
        /\ (~sched.schedule.enabled \/ sched.schedule.frequency = "manual"))
       => sched.active = {}

====
